---- MODULE Spec2Model ----
(***************************************************************************)
(* TenCoin CMS backend: the product and order request handlers (Fastify    *)
(* routes and the ProductService / OrderService classes) over the          *)
(* relational store they reach through Prisma.  Every handler is a         *)
(* sequence of awaited store calls; each awaited call is one step, so      *)
(* handlers of different requests interleave between their calls.          *)
(***************************************************************************)
EXTENDS Integers, Sequences, FiniteSets, TLC

VARIABLES
    products,          \* committed Product rows: id -> record
    orders,            \* committed Order rows: id -> [note]
    items,             \* committed OrderItem rows: set of [id, orderId, productId, quantity]
    nextProductId,     \* ids handed out so far (ids are never reused)
    nextOrderId,
    req,               \* the request each task is serving: handler, position, locals
    onDeleteProduct,   \* referential action of OrderItem.productId -> Product
    onDeleteOrder,     \* referential action of OrderItem.orderId -> Order
    calls              \* requests received so far

vars == <<products, orders, items, nextProductId, nextOrderId, req,
          onDeleteProduct, onDeleteOrder, calls>>

store == <<products, orders, items>>

(*************************** bounds of the model ***************************)
\* requests received in one run
MaxCalls == 3

\* the tasks that serve requests concurrently
Procs == {1, 2}

(******************************* values ************************************)
NULL == "null"
NoId == 0

Statuses == {"ACTIVE", "OUT_OF_STOCK", "DISCONTINUED"}

\* the static vendor registry
VENDORS == {"01", "02", "03", "05", "08", "12", "15", "17", "20", "23"}

Range(s) == {s[i] : i \in DOMAIN s}

\* body.k, or d when the key is absent (undefined)
Get(body, k, d) == IF k \in DOMAIN body THEN body[k] ELSE d

Has(body, k) == k \in DOMAIN body

\* JavaScript `s || null` on an optional string: undefined and "" are falsy
OrNull(body, k) == IF Has(body, k) /\ body[k] # "" THEN body[k] ELSE NULL

\* JavaScript `s ?? null`: only undefined becomes null
CoalesceNull(body, k) == IF Has(body, k) THEN body[k] ELSE NULL

\* VendorService.validateVendorIds
validateVendorIds(vendorIds) ==
    IF Len(vendorIds) = 0 THEN FALSE
    ELSE \A i \in DOMAIN vendorIds : vendorIds[i] \in VENDORS

(***************************** the store ***********************************)
ProductIds == DOMAIN products
OrderIds == DOMAIN orders

\* prisma.product.findUnique({ where: { barcode } }): the id, or NoId
findByBarcode(barcode) ==
    IF \E id \in ProductIds : products[id].barcode = barcode
    THEN CHOOSE id \in ProductIds : products[id].barcode = barcode
    ELSE NoId

\* the unique index on Product.barcode, as the store enforces it on a write
BarcodeFree(barcode, self) ==
    \A id \in ProductIds \ {self} : products[id].barcode # barcode

\* f extended (or overwritten) at k
Put(f, k, v) == [x \in DOMAIN f \cup {k} |-> IF x = k THEN v ELSE f[x]]

Drop(f, k) == [x \in DOMAIN f \ {k} |-> f[x]]

(***************************** requests ************************************)
\* a transaction's uncommitted work: rows it deleted (and holds locked), rows
\* it inserted, and what it did to its order row
NoTx == [del |-> {}, ins |-> {}, ordDel |-> FALSE, ordUpd |-> FALSE,
         setNote |-> FALSE, note |-> NULL]

Call(op, pc, id, body) ==
    [op |-> op, pc |-> pc, id |-> id, body |-> body,
     found |-> NoId, res |-> "none", issued |-> {}, made |-> NoId,
     tx |-> NoTx, targets |-> {}, pre |-> <<>>, seen |-> <<>>]

Idle == Call("idle", "idle", NoId, <<>>)

\* the handler ends: res is what the caller is told
Done(r, res) == [r EXCEPT !.pc = "done", !.res = res]

CreateProductOps == {"createProduct", "POST_products"}

CanStart(p) == req[p].pc \in {"idle", "done"} /\ calls < MaxCalls

(************************ product request bodies ***************************)
Barcodes == {"B1", "B2"}

ProductBody(barcode) ==
    [name |-> "A", barcode |-> barcode, costPrice |-> 1, sellPrice |-> 2]

CreateProductBodies == {ProductBody(b) : b \in Barcodes}

\* createProductSchema.parse: the fields it rejects
createProductSchemaOk(body) ==
    /\ Has(body, "name") /\ body.name # ""
    /\ Has(body, "barcode") /\ body.barcode # ""
    /\ Has(body, "costPrice") /\ body.costPrice > 0
    /\ Has(body, "sellPrice") /\ body.sellPrice > 0
    /\ Has(body, "status") => body.status \in Statuses

(******************** ProductService.createProduct *************************)
StartCreateProduct(p, body) ==
    /\ CanStart(p)
    /\ req' = [req EXCEPT ![p] = Call("createProduct", "lookup", NoId, body)]
    /\ UNCHANGED <<products, orders, items, nextProductId, nextOrderId,
                   onDeleteProduct, onDeleteOrder>>
    /\ calls' = calls + 1

\* getProductByBarcode, then the vendor check
CreateProductLookup(p) ==
    /\ req[p].op = "createProduct" /\ req[p].pc = "lookup"
    /\ LET r == req[p]
           existing == findByBarcode(r.body.barcode)
           vendors == Get(r.body, "vendors", <<>>)
       IN req' = [req EXCEPT ![p] =
                    IF existing # NoId
                    THEN Done([r EXCEPT !.found = existing], "conflict")
                    ELSE IF Len(vendors) > 0 /\ ~validateVendorIds(vendors)
                    THEN Done(r, "validation")
                    ELSE [r EXCEPT !.pc = "insert"]]
    /\ UNCHANGED <<products, orders, items, nextProductId, nextOrderId,
                   onDeleteProduct, onDeleteOrder, calls>>

\* the row with the barcode stored as its name
ServiceProductRow_NameFromBarcode(body) ==
    [name |-> body.barcode, barcode |-> body.barcode,
     costPrice |-> body.costPrice, sellPrice |-> body.sellPrice,
     vendors |-> Get(body, "vendors", <<>>),
     imagePath |-> OrNull(body, "imagePath"),
     status |-> "ACTIVE", isOrdered |-> FALSE,
     tags |-> Get(body, "tags", <<>>),
     note |-> CoalesceNull(body, "note")]

\* the row prisma.product.create writes; status and isOrdered are column defaults
ServiceProductRow(body) ==
    [name |-> body.name, barcode |-> body.barcode,
     costPrice |-> body.costPrice, sellPrice |-> body.sellPrice,
     vendors |-> Get(body, "vendors", <<>>),
     imagePath |-> OrNull(body, "imagePath"),
     status |-> "ACTIVE", isOrdered |-> FALSE,
     tags |-> Get(body, "tags", <<>>),
     note |-> CoalesceNull(body, "note")]

\* prisma.product.create under the unique index on barcode
InsertProduct(p, row) ==
    IF BarcodeFree(row.barcode, NoId)
    THEN /\ products' = Put(products, nextProductId, row)
         /\ nextProductId' = nextProductId + 1
         /\ req' = [req EXCEPT ![p] =
                      Done([req[p] EXCEPT !.issued = @ \cup {"insert"},
                                          !.made = nextProductId], "ok")]
    ELSE /\ req' = [req EXCEPT ![p] =
                      Done([req[p] EXCEPT !.issued = @ \cup {"insert"}], "persistence")]
         /\ UNCHANGED <<products, nextProductId>>

CreateProductInsert(p) ==
    /\ req[p].op = "createProduct" /\ req[p].pc = "insert"
    /\ InsertProduct(p, ServiceProductRow(req[p].body))
    /\ UNCHANGED <<orders, items, nextOrderId, onDeleteProduct, onDeleteOrder, calls>>

(*************************** POST /products ********************************)
StartPostProducts(p, body) ==
    /\ CanStart(p)
    /\ req' = [req EXCEPT ![p] =
                   IF createProductSchemaOk(body)
                   THEN Call("POST_products", "lookup", NoId, body)
                   ELSE Done(Call("POST_products", "parse", NoId, body), "validation")]
    /\ UNCHANGED <<products, orders, items, nextProductId, nextOrderId,
                   onDeleteProduct, onDeleteOrder>>
    /\ calls' = calls + 1

\* the lookup without its early return: the insert is tried whatever is found
PostProductsLookup_NoReturn(p) ==
    /\ req[p].op = "POST_products" /\ req[p].pc = "lookup"
    /\ req' = [req EXCEPT ![p] =
                 [req[p] EXCEPT !.found = findByBarcode(req[p].body.barcode),
                                !.pc = "insert"]]
    /\ UNCHANGED <<products, orders, items, nextProductId, nextOrderId,
                   onDeleteProduct, onDeleteOrder, calls>>


PostProductsLookup(p) ==
    /\ req[p].op = "POST_products" /\ req[p].pc = "lookup"
    /\ LET r == req[p]
           existingProduct == findByBarcode(r.body.barcode)
       IN req' = [req EXCEPT ![p] =
                    IF existingProduct # NoId
                    THEN Done([r EXCEPT !.found = existingProduct], "conflict")
                    ELSE [r EXCEPT !.pc = "insert"]]
    /\ UNCHANGED <<products, orders, items, nextProductId, nextOrderId,
                   onDeleteProduct, onDeleteOrder, calls>>

\* the row the route would write if it left the status to the column default
RouteProductRow_DefaultStatus(body) ==
    [name |-> body.name, barcode |-> body.barcode,
     costPrice |-> body.costPrice, sellPrice |-> body.sellPrice,
     vendors |-> Get(body, "vendorIds", <<>>),
     imagePath |-> OrNull(body, "imagePath"),
     status |-> "ACTIVE", isOrdered |-> FALSE,
     tags |-> Get(body, "tags", <<>>),
     note |-> OrNull(body, "note")]

\* the row the route writes, with the schema's defaults applied
RouteProductRow(body) ==
    [name |-> body.name, barcode |-> body.barcode,
     costPrice |-> body.costPrice, sellPrice |-> body.sellPrice,
     vendors |-> Get(body, "vendorIds", <<>>),
     imagePath |-> OrNull(body, "imagePath"),
     status |-> Get(body, "status", "ACTIVE"), isOrdered |-> FALSE,
     tags |-> Get(body, "tags", <<>>),
     note |-> OrNull(body, "note")]

PostProductsInsert(p) ==
    /\ req[p].op = "POST_products" /\ req[p].pc = "insert"
    /\ InsertProduct(p, RouteProductRow(req[p].body))
    /\ UNCHANGED <<orders, items, nextOrderId, onDeleteProduct, onDeleteOrder, calls>>

(***************************** order items *********************************)
ItemsOf(o) == {i \in items : i.orderId = o}

\* Product.orderItems
ItemsOn(P) == {i \in items : i.productId = P}

Ids(S) == {i.id : i \in S}

Line(P, n) == [productId |-> P, quantity |-> n]

\* the rows of S in id order, as (productId, quantity) lines
Content(S) ==
    [n \in 1 .. Cardinality(S) |->
        LET i == CHOOSE i \in S : Cardinality({j \in S : j.id <= i.id}) = n
        IN Line(i.productId, i.quantity)]

\* item ids are generated fresh: never one a row or a pending statement holds
UsedItemIds ==
    Ids(items) \cup UNION {Ids(req[q].tx.ins) \cup Ids(req[q].targets) : q \in Procs}

FreshItemId(n) ==
    LET free == (1 .. (Cardinality(UsedItemIds) + n)) \ UsedItemIds
    IN CHOOSE x \in free : Cardinality({y \in free : y < x}) = n - 1

NewItems(o, lines) ==
    {[id |-> FreshItemId(n), orderId |-> o,
      productId |-> lines[n].productId, quantity |-> lines[n].quantity] :
        n \in DOMAIN lines}

\* items.map(item => item.productId)
productIdsOf(lines) == [n \in DOMAIN lines |-> lines[n].productId]

\* prisma.product.findMany({ where: { id: { in: productIds } } })
findManyProducts(productIds) == {P \in ProductIds : P \in Range(productIds)}

\* the length check with > for !==
SomeProductsNotFound_Greater(lines) ==
    Cardinality(findManyProducts(productIdsOf(lines))) > Len(productIdsOf(lines))

\* products.length !== productIds.length
SomeProductsNotFound(lines) ==
    Cardinality(findManyProducts(productIdsOf(lines))) # Len(productIdsOf(lines))

\* the foreign key OrderItem.productId -> Product, checked as rows are written
ProductsExist(lines) == \A n \in DOMAIN lines : lines[n].productId \in ProductIds

(******************** row locks of open transactions ***********************)
\* a row another transaction deleted and has not yet committed
ItemRowLocked(p, ids) == \E q \in Procs \ {p} : req[q].tx.del \cap ids # {}

\* another transaction wrote the order row
OrderRowLocked(p, o) ==
    \E q \in Procs \ {p} : req[q].id = o /\ (req[q].tx.ordDel \/ req[q].tx.ordUpd)

OrderDeletePending(p, o) ==
    \E q \in Procs \ {p} : req[q].id = o /\ req[q].tx.ordDel

\* another transaction inserted rows that reference the order / the product
OrderKeyShared(p, o) ==
    \E q \in Procs \ {p} : \E i \in req[q].tx.ins : i.orderId = o

ProductKeyShared(p, P) ==
    \E q \in Procs \ {p} : \E i \in req[q].tx.ins : i.productId = P

\* the transaction throws: every statement of it is rolled back
Rollback(r) == Done([r EXCEPT !.tx = NoTx, !.targets = {}], "persistence")

(************************** order request bodies ***************************)
\* product 3 is an id no product has
ProductTargets == {1, 2}

CreateOrderBodies == {[items |-> <<Line(2, 1)>>], [items |-> <<Line(3, 1)>>]}

UpdateOrderBodies == {[items |-> <<Line(2, 1)>>], [items |-> <<Line(3, 1)>>]}

\* orderItemSchema
orderItemSchemaOk(line) == line.quantity > 0

\* createOrderSchema.parse
createOrderSchemaOk(body) ==
    /\ Has(body, "items") /\ Len(body.items) >= 1
    /\ \A n \in DOMAIN body.items : orderItemSchemaOk(body.items[n])

\* createOrderSchema.partial().parse
updateOrderSchemaOk(body) == Has(body, "items") => createOrderSchemaOk(body)

CreateOrderOps == {"createOrder", "POST_orders"}

\* prisma.order.create with nested items: one atomic write
InsertOrder(p, note, lines, pcAfter, resAfter) ==
    IF ProductsExist(lines)
    THEN /\ orders' = Put(orders, nextOrderId, [note |-> note])
         /\ items' = items \cup NewItems(nextOrderId, lines)
         /\ nextOrderId' = nextOrderId + 1
         /\ req' = [req EXCEPT ![p] =
                      [req[p] EXCEPT !.issued = @ \cup {"insert"}, !.made = nextOrderId,
                                     !.pc = pcAfter, !.res = resAfter]]
    ELSE /\ req' = [req EXCEPT ![p] =
                      Done([req[p] EXCEPT !.issued = @ \cup {"insert"}], "persistence")]
         /\ UNCHANGED <<orders, items, nextOrderId>>

(***************************** POST /orders ********************************)
StartPostOrders(p, body) ==
    /\ CanStart(p)
    /\ req' = [req EXCEPT ![p] =
                   IF createOrderSchemaOk(body)
                   THEN Call("POST_orders", "findMany", NoId, body)
                   ELSE Done(Call("POST_orders", "parse", NoId, body), "validation")]
    /\ UNCHANGED <<products, orders, items, nextProductId, nextOrderId,
                   onDeleteProduct, onDeleteOrder>>
    /\ calls' = calls + 1

PostOrdersFindMany(p) ==
    /\ req[p].op = "POST_orders" /\ req[p].pc = "findMany"
    /\ req' = [req EXCEPT ![p] =
                 IF SomeProductsNotFound(req[p].body.items)
                 THEN Done(req[p], "validation")
                 ELSE [req[p] EXCEPT !.pc = "create"]]
    /\ UNCHANGED <<products, orders, items, nextProductId, nextOrderId,
                   onDeleteProduct, onDeleteOrder, calls>>

PostOrdersCreate(p) ==
    /\ req[p].op = "POST_orders" /\ req[p].pc = "create"
    /\ InsertOrder(p, OrNull(req[p].body, "note"), req[p].body.items, "flag", "none")
    /\ UNCHANGED <<products, nextProductId, onDeleteProduct, onDeleteOrder, calls>>

\* prisma.product.updateMany({ where: { id: { in: productIds } }, data: { isOrdered: true } })
PostOrdersFlag(p) ==
    /\ req[p].op = "POST_orders" /\ req[p].pc = "flag"
    /\ products' = [P \in ProductIds |->
                      IF P \in Range(productIdsOf(req[p].body.items))
                      THEN [products[P] EXCEPT !.isOrdered = TRUE]
                      ELSE products[P]]
    /\ req' = [req EXCEPT ![p] = Done([req[p] EXCEPT !.issued = @ \cup {"update"}], "ok")]
    /\ UNCHANGED <<orders, items, nextProductId, nextOrderId,
                   onDeleteProduct, onDeleteOrder, calls>>

(********************** OrderService.createOrder ***************************)
StartCreateOrder(p, body) ==
    /\ CanStart(p)
    /\ req' = [req EXCEPT ![p] = Call("createOrder", "findMany", NoId, body)]
    /\ UNCHANGED <<products, orders, items, nextProductId, nextOrderId,
                   onDeleteProduct, onDeleteOrder>>
    /\ calls' = calls + 1

CreateOrderFindMany(p) ==
    /\ req[p].op = "createOrder" /\ req[p].pc = "findMany"
    /\ req' = [req EXCEPT ![p] =
                 IF SomeProductsNotFound(req[p].body.items)
                 THEN Done(req[p], "validation")
                 ELSE [req[p] EXCEPT !.pc = "create"]]
    /\ UNCHANGED <<products, orders, items, nextProductId, nextOrderId,
                   onDeleteProduct, onDeleteOrder, calls>>

CreateOrderCreate(p) ==
    /\ req[p].op = "createOrder" /\ req[p].pc = "create"
    /\ InsertOrder(p, CoalesceNull(req[p].body, "note"), req[p].body.items, "done", "ok")
    /\ UNCHANGED <<products, nextProductId, onDeleteProduct, onDeleteOrder, calls>>

(********************** statements inside a transaction ********************)
\* tx.orderItem.deleteMany({ where: { orderId: id } }): the rows it finds are
\* deleted at once, or, when another transaction holds one of them locked,
\* the statement waits with the rows it found
TxDeleteMany(p, pcAfter) ==
    LET r == req[p]
        rows == ItemsOf(r.id)
    IN req' = [req EXCEPT ![p] =
                 IF ItemRowLocked(p, Ids(rows))
                 THEN [r EXCEPT !.pc = "deleteWait", !.targets = rows]
                 ELSE [r EXCEPT !.pc = pcAfter, !.tx.del = Ids(rows),
                                !.issued = @ \cup {"delete"}]]

\* where each handler goes on after its deleteMany
AfterDeleteMany(op) ==
    CASE op = "PUT_orders" -> "createMany"
      [] op = "updateOrder" -> "txUpdate"
      [] OTHER -> "orderDelete"

\* the lock is released: of the rows found, those still there are deleted
DeleteManyResume(p) ==
    /\ req[p].pc = "deleteWait"
    /\ ~ItemRowLocked(p, Ids(req[p].targets))
    /\ req' = [req EXCEPT ![p] =
                 [req[p] EXCEPT !.pc = AfterDeleteMany(req[p].op),
                                !.tx.del = Ids(req[p].targets \cap items),
                                !.targets = {},
                                !.issued = @ \cup {"delete"}]]
    /\ UNCHANGED <<products, orders, items, nextProductId, nextOrderId,
                   onDeleteProduct, onDeleteOrder, calls>>

\* COMMIT: the transaction's work becomes visible in one step
CommitTx(p) ==
    LET r == req[p]
        t == r.tx
    IN /\ items' = {i \in items : i.id \notin t.del} \cup t.ins
       /\ orders' = IF t.ordDel THEN Drop(orders, r.id)
                    ELSE IF t.ordUpd /\ t.setNote
                    THEN [orders EXCEPT ![r.id].note = t.note]
                    ELSE orders
       /\ req' = [req EXCEPT ![p] = Done([r EXCEPT !.tx = NoTx], "ok")]


(**************************** PUT /orders/:id ******************************)
StartPutOrders(p, id, body) ==
    /\ CanStart(p)
    /\ req' = [req EXCEPT ![p] =
                   IF updateOrderSchemaOk(body)
                   THEN Call("PUT_orders", "find", id, body)
                   ELSE Done(Call("PUT_orders", "parse", id, body), "validation")]
    /\ UNCHANGED <<products, orders, items, nextProductId, nextOrderId,
                   onDeleteProduct, onDeleteOrder>>
    /\ calls' = calls + 1

PutOrdersFind(p) ==
    /\ req[p].op = "PUT_orders" /\ req[p].pc = "find"
    /\ LET r == req[p]
       IN req' = [req EXCEPT ![p] =
                    IF r.id \notin OrderIds
                    THEN Done(r, "notfound")
                    ELSE [r EXCEPT !.found = r.id, !.pre = [note |-> orders[r.id].note,
                                              items |-> Content(ItemsOf(r.id))],
                                   !.pc = IF Has(r.body, "items")
                                          THEN "deleteMany" ELSE "update"]]
    /\ UNCHANGED <<products, orders, items, nextProductId, nextOrderId,
                   onDeleteProduct, onDeleteOrder, calls>>

\* deleteMany on the client instead of on tx: the rows go at once
PutOrdersDeleteMany_Direct(p) ==
    /\ req[p].op = "PUT_orders" /\ req[p].pc = "deleteMany"
    /\ items' = items \ ItemsOf(req[p].id)
    /\ req' = [req EXCEPT ![p] =
                 [req[p] EXCEPT !.pc = "createMany", !.issued = @ \cup {"delete"}]]
    /\ UNCHANGED <<products, orders, nextProductId, nextOrderId,
                   onDeleteProduct, onDeleteOrder, calls>>


PutOrdersDeleteMany(p) ==
    /\ req[p].op = "PUT_orders" /\ req[p].pc = "deleteMany"
    /\ TxDeleteMany(p, "createMany")
    /\ UNCHANGED <<products, orders, items, nextProductId, nextOrderId,
                   onDeleteProduct, onDeleteOrder, calls>>

\* tx.orderItem.createMany: both foreign keys of every row are checked
PutOrdersCreateMany(p) ==
    /\ req[p].op = "PUT_orders" /\ req[p].pc = "createMany"
    /\ ~OrderDeletePending(p, req[p].id)
    /\ LET r == [req[p] EXCEPT !.issued = @ \cup {"insert"}]
       IN req' = [req EXCEPT ![p] =
                    IF r.id \in OrderIds /\ ProductsExist(r.body.items)
                    THEN [r EXCEPT !.tx.ins = NewItems(r.id, r.body.items),
                                   !.pc = "update"]
                    ELSE Rollback(r)]
    /\ UNCHANGED <<products, orders, items, nextProductId, nextOrderId,
                   onDeleteProduct, onDeleteOrder, calls>>

\* tx.order.update({ where: { id }, data: updatePayload })
PutOrdersUpdate(p) ==
    /\ req[p].op = "PUT_orders" /\ req[p].pc = "update"
    /\ ~OrderRowLocked(p, req[p].id)
    /\ LET r == [req[p] EXCEPT !.issued = @ \cup {"update"}]
       IN req' = [req EXCEPT ![p] =
                    IF r.id \in OrderIds
                    THEN [r EXCEPT !.tx.ordUpd = TRUE,
                                   !.tx.setNote = Has(r.body, "note"),
                                   !.tx.note = OrNull(r.body, "note"),
                                   !.pc = "commit"]
                    ELSE Rollback(r)]
    /\ UNCHANGED <<products, orders, items, nextProductId, nextOrderId,
                   onDeleteProduct, onDeleteOrder, calls>>

PutOrdersCommit(p) ==
    /\ req[p].op = "PUT_orders" /\ req[p].pc = "commit"
    /\ CommitTx(p)
    /\ UNCHANGED <<products, nextProductId, nextOrderId, onDeleteProduct, onDeleteOrder, calls>>

(********************** OrderService.updateOrder ***************************)
StartUpdateOrder(p, id, body) ==
    /\ CanStart(p)
    /\ req' = [req EXCEPT ![p] = Call("updateOrder", "find", id, body)]
    /\ UNCHANGED <<products, orders, items, nextProductId, nextOrderId,
                   onDeleteProduct, onDeleteOrder>>
    /\ calls' = calls + 1

UpdateOrderFind(p) ==
    /\ req[p].op = "updateOrder" /\ req[p].pc = "find"
    /\ LET r == req[p]
       IN req' = [req EXCEPT ![p] =
                    IF r.id \notin OrderIds
                    THEN Done(r, "notfound")
                    ELSE [r EXCEPT !.found = r.id, !.pre = [note |-> orders[r.id].note,
                                              items |-> Content(ItemsOf(r.id))],
                                   !.pc = IF Has(r.body, "items")
                                          THEN "findMany" ELSE "update"]]
    /\ UNCHANGED <<products, orders, items, nextProductId, nextOrderId,
                   onDeleteProduct, onDeleteOrder, calls>>

UpdateOrderFindMany(p) ==
    /\ req[p].op = "updateOrder" /\ req[p].pc = "findMany"
    /\ req' = [req EXCEPT ![p] =
                 IF SomeProductsNotFound(req[p].body.items)
                 THEN Done(req[p], "validation")
                 ELSE [req[p] EXCEPT !.pc = "deleteMany"]]
    /\ UNCHANGED <<products, orders, items, nextProductId, nextOrderId,
                   onDeleteProduct, onDeleteOrder, calls>>

\* deleteMany on the client instead of on tx: the rows go at once
UpdateOrderDeleteMany_Direct(p) ==
    /\ req[p].op = "updateOrder" /\ req[p].pc = "deleteMany"
    /\ items' = items \ ItemsOf(req[p].id)
    /\ req' = [req EXCEPT ![p] =
                 [req[p] EXCEPT !.pc = "txUpdate", !.issued = @ \cup {"delete"}]]
    /\ UNCHANGED <<products, orders, nextProductId, nextOrderId,
                   onDeleteProduct, onDeleteOrder, calls>>


UpdateOrderDeleteMany(p) ==
    /\ req[p].op = "updateOrder" /\ req[p].pc = "deleteMany"
    /\ TxDeleteMany(p, "txUpdate")
    /\ UNCHANGED <<products, orders, items, nextProductId, nextOrderId,
                   onDeleteProduct, onDeleteOrder, calls>>

\* tx.order.update with the note and the nested create of the new items
UpdateOrderTxUpdate(p) ==
    /\ req[p].op = "updateOrder" /\ req[p].pc = "txUpdate"
    /\ ~OrderRowLocked(p, req[p].id)
    /\ LET r == [req[p] EXCEPT !.issued = @ \cup {"update", "insert"}]
       IN req' = [req EXCEPT ![p] =
                    IF r.id \in OrderIds /\ ProductsExist(r.body.items)
                    THEN [r EXCEPT !.tx.ordUpd = TRUE,
                                   !.tx.setNote = TRUE,
                                   !.tx.note = CoalesceNull(r.body, "note"),
                                   !.tx.ins = NewItems(r.id, r.body.items),
                                   !.pc = "commit"]
                    ELSE Rollback(r)]
    /\ UNCHANGED <<products, orders, items, nextProductId, nextOrderId,
                   onDeleteProduct, onDeleteOrder, calls>>

UpdateOrderCommit(p) ==
    /\ req[p].op = "updateOrder" /\ req[p].pc = "commit"
    /\ CommitTx(p)
    /\ UNCHANGED <<products, nextProductId, nextOrderId, onDeleteProduct, onDeleteOrder, calls>>

\* the note-only update with a nested `items: { deleteMany: {} }`
UpdateOrderUpdate_DropsItems(p) ==
    /\ req[p].op = "updateOrder" /\ req[p].pc = "update"
    /\ req[p].id \in OrderIds
    /\ orders' = [orders EXCEPT ![req[p].id].note = CoalesceNull(req[p].body, "note")]
    /\ items' = items \ ItemsOf(req[p].id)
    /\ req' = [req EXCEPT ![p] = Done([req[p] EXCEPT !.issued = @ \cup {"update"}], "ok")]
    /\ UNCHANGED <<products, nextProductId, nextOrderId,
                   onDeleteProduct, onDeleteOrder, calls>>

\* the note-only branch: one prisma.order.update outside any transaction
UpdateOrderUpdate(p) ==
    /\ req[p].op = "updateOrder" /\ req[p].pc = "update"
    /\ ~OrderRowLocked(p, req[p].id)
    /\ LET r == [req[p] EXCEPT !.issued = @ \cup {"update"}]
       IN IF r.id \in OrderIds
          THEN /\ orders' = [orders EXCEPT ![r.id].note = CoalesceNull(r.body, "note")]
               /\ req' = [req EXCEPT ![p] = Done(r, "ok")]
          ELSE /\ req' = [req EXCEPT ![p] = Done(r, "persistence")]
               /\ UNCHANGED orders
    /\ UNCHANGED <<products, items, nextProductId, nextOrderId,
                   onDeleteProduct, onDeleteOrder, calls>>

(*************************** DELETE /orders/:id ****************************)
StartDeleteOrders(p, id) ==
    /\ CanStart(p)
    /\ req' = [req EXCEPT ![p] = Call("DELETE_orders", "find", id, <<>>)]
    /\ UNCHANGED <<products, orders, items, nextProductId, nextOrderId,
                   onDeleteProduct, onDeleteOrder>>
    /\ calls' = calls + 1

DeleteOrdersFind(p) ==
    /\ req[p].op = "DELETE_orders" /\ req[p].pc = "find"
    /\ LET r == req[p]
       IN req' = [req EXCEPT ![p] =
                    IF r.id \notin OrderIds
                    THEN Done(r, "notfound")
                    ELSE [r EXCEPT !.found = r.id, !.pre = [note |-> orders[r.id].note,
                                              items |-> Content(ItemsOf(r.id))],
                                   !.pc = "deleteMany"]]
    /\ UNCHANGED <<products, orders, items, nextProductId, nextOrderId,
                   onDeleteProduct, onDeleteOrder, calls>>

\* deleteMany on the client instead of on tx: the rows go at once
DeleteOrdersDeleteMany_Direct(p) ==
    /\ req[p].op = "DELETE_orders" /\ req[p].pc = "deleteMany"
    /\ items' = items \ ItemsOf(req[p].id)
    /\ req' = [req EXCEPT ![p] =
                 [req[p] EXCEPT !.pc = "orderDelete", !.issued = @ \cup {"delete"}]]
    /\ UNCHANGED <<products, orders, nextProductId, nextOrderId,
                   onDeleteProduct, onDeleteOrder, calls>>


DeleteOrdersDeleteMany(p) ==
    /\ req[p].op = "DELETE_orders" /\ req[p].pc = "deleteMany"
    /\ TxDeleteMany(p, "orderDelete")
    /\ UNCHANGED <<products, orders, items, nextProductId, nextOrderId,
                   onDeleteProduct, onDeleteOrder, calls>>

\* tx.order.delete({ where: { id } }) under the foreign key of its items
DeleteOrdersOrderDelete(p) ==
    /\ req[p].op = "DELETE_orders" /\ req[p].pc = "orderDelete"
    /\ ~OrderRowLocked(p, req[p].id)
    /\ ~OrderKeyShared(p, req[p].id)
    /\ ~ItemRowLocked(p, Ids(ItemsOf(req[p].id)))
    /\ LET r == [req[p] EXCEPT !.issued = @ \cup {"delete"}]
           left == {i \in ItemsOf(r.id) : i.id \notin r.tx.del}
       IN req' = [req EXCEPT ![p] =
                    IF r.id \notin OrderIds \/ (left # {} /\ onDeleteOrder = "Restrict")
                    THEN Rollback(r)
                    ELSE [r EXCEPT !.tx.ordDel = TRUE,
                                   !.tx.del = @ \cup Ids(left),
                                   !.pc = "commit"]]
    /\ UNCHANGED <<products, orders, items, nextProductId, nextOrderId,
                   onDeleteProduct, onDeleteOrder, calls>>

DeleteOrdersCommit(p) ==
    /\ req[p].op = "DELETE_orders" /\ req[p].pc = "commit"
    /\ CommitTx(p)
    /\ UNCHANGED <<products, nextProductId, nextOrderId, onDeleteProduct, onDeleteOrder, calls>>

(********************** OrderService.deleteOrder ***************************)
StartDeleteOrder(p, id) ==
    /\ CanStart(p)
    /\ req' = [req EXCEPT ![p] = Call("deleteOrder", "find", id, <<>>)]
    /\ UNCHANGED <<products, orders, items, nextProductId, nextOrderId,
                   onDeleteProduct, onDeleteOrder>>
    /\ calls' = calls + 1

DeleteOrderFind(p) ==
    /\ req[p].op = "deleteOrder" /\ req[p].pc = "find"
    /\ LET r == req[p]
       IN req' = [req EXCEPT ![p] =
                    IF r.id \notin OrderIds
                    THEN Done(r, "notfound")
                    ELSE [r EXCEPT !.found = r.id, !.pre = [note |-> orders[r.id].note,
                                              items |-> Content(ItemsOf(r.id))],
                                   !.pc = "delete"]]
    /\ UNCHANGED <<products, orders, items, nextProductId, nextOrderId,
                   onDeleteProduct, onDeleteOrder, calls>>

\* the delete with no foreign key from order items to orders
DeleteOrderDelete_NoForeignKey(p) ==
    /\ req[p].op = "deleteOrder" /\ req[p].pc = "delete"
    /\ ~OrderRowLocked(p, req[p].id)
    /\ LET r == [req[p] EXCEPT !.issued = @ \cup {"delete"}]
       IN IF r.id \notin OrderIds
          THEN /\ req' = [req EXCEPT ![p] = Done(r, "persistence")]
               /\ UNCHANGED <<orders, items>>
          ELSE /\ orders' = Drop(orders, r.id)
               /\ items' = items
               /\ req' = [req EXCEPT ![p] = Done(r, "ok")]
    /\ UNCHANGED <<products, nextProductId, nextOrderId, onDeleteProduct, onDeleteOrder, calls>>

\* prisma.order.delete({ where: { id } }): one statement, with the items left
\* to the foreign key's referential action
DeleteOrderDelete(p) ==
    /\ req[p].op = "deleteOrder" /\ req[p].pc = "delete"
    /\ ~OrderRowLocked(p, req[p].id)
    /\ ~OrderKeyShared(p, req[p].id)
    /\ ~ItemRowLocked(p, Ids(ItemsOf(req[p].id)))
    /\ LET r == [req[p] EXCEPT !.issued = @ \cup {"delete"}]
       IN IF r.id \notin OrderIds \/ (ItemsOf(r.id) # {} /\ onDeleteOrder = "Restrict")
          THEN /\ req' = [req EXCEPT ![p] = Done(r, "persistence")]
               /\ UNCHANGED <<orders, items>>
          ELSE /\ orders' = Drop(orders, r.id)
               /\ items' = items \ ItemsOf(r.id)
               /\ req' = [req EXCEPT ![p] = Done(r, "ok")]
    /\ UNCHANGED <<products, nextProductId, nextOrderId, onDeleteProduct, onDeleteOrder, calls>>

(**************************** GET /orders/:id ******************************)
StartGetOrders(p, id) ==
    /\ CanStart(p)
    /\ req' = [req EXCEPT ![p] = Call("GET_orders", "read", id, <<>>)]
    /\ UNCHANGED <<products, orders, items, nextProductId, nextOrderId,
                   onDeleteProduct, onDeleteOrder>>
    /\ calls' = calls + 1

\* prisma.order.findUnique({ where: { id }, include: { items } })
GetOrdersRead(p) ==
    /\ req[p].op = "GET_orders" /\ req[p].pc = "read"
    /\ LET r == req[p]
       IN req' = [req EXCEPT ![p] =
                    IF r.id \notin OrderIds
                    THEN Done(r, "notfound")
                    ELSE Done([r EXCEPT !.found = r.id,
                                        !.seen = Content(ItemsOf(r.id))], "ok")]
    /\ UNCHANGED <<products, orders, items, nextProductId, nextOrderId,
                   onDeleteProduct, onDeleteOrder, calls>>

(***************************** reading one record **************************)
\* what a read hands back of a product: the row with its id
ProductView(id) == [id |-> id] @@ products[id]

StartGetProducts(p, id) ==
    /\ CanStart(p)
    /\ req' = [req EXCEPT ![p] = Call("GET_products", "read", id, <<>>)]
    /\ UNCHANGED <<products, orders, items, nextProductId, nextOrderId,
                   onDeleteProduct, onDeleteOrder>>
    /\ calls' = calls + 1

\* a read that also clears the product's isOrdered
GetProductsRead_Clears(p) ==
    /\ req[p].op = "GET_products" /\ req[p].pc = "read"
    /\ LET r == req[p]
       IN /\ req' = [req EXCEPT ![p] =
                       IF r.id \notin ProductIds
                       THEN Done(r, "notfound")
                       ELSE Done([r EXCEPT !.found = r.id,
                                           !.seen = [product |-> ProductView(r.id),
                                                     orderItems |-> Content(ItemsOn(r.id))]],
                                 "ok")]
          /\ products' = IF r.id \in ProductIds
                         THEN [products EXCEPT ![r.id].isOrdered = FALSE]
                         ELSE products
    /\ UNCHANGED <<orders, items, nextProductId, nextOrderId,
                   onDeleteProduct, onDeleteOrder, calls>>

\* prisma.product.findUnique({ where: { id }, include: { orderItems } })
GetProductsRead(p) ==
    /\ req[p].op = "GET_products" /\ req[p].pc = "read"
    /\ LET r == req[p]
       IN req' = [req EXCEPT ![p] =
                    IF r.id \notin ProductIds
                    THEN Done(r, "notfound")
                    ELSE Done([r EXCEPT !.found = r.id,
                                        !.seen = [product |-> ProductView(r.id),
                                                  orderItems |-> Content(ItemsOn(r.id))]],
                              "ok")]
    /\ UNCHANGED <<products, orders, items, nextProductId, nextOrderId,
                   onDeleteProduct, onDeleteOrder, calls>>

StartGetProductById(p, id) ==
    /\ CanStart(p)
    /\ req' = [req EXCEPT ![p] = Call("getProductById", "read", id, <<>>)]
    /\ UNCHANGED <<products, orders, items, nextProductId, nextOrderId,
                   onDeleteProduct, onDeleteOrder>>
    /\ calls' = calls + 1

\* prisma.product.findUnique({ where: { id } }): the product or null
GetProductByIdRead(p) ==
    /\ req[p].op = "getProductById" /\ req[p].pc = "read"
    /\ LET r == req[p]
       IN req' = [req EXCEPT ![p] =
                    IF r.id \notin ProductIds
                    THEN Done([r EXCEPT !.seen = NULL], "ok")
                    ELSE Done([r EXCEPT !.found = r.id,
                                        !.seen = ProductView(r.id)], "ok")]
    /\ UNCHANGED <<products, orders, items, nextProductId, nextOrderId,
                   onDeleteProduct, onDeleteOrder, calls>>

StartGetOrderById(p, id) ==
    /\ CanStart(p)
    /\ req' = [req EXCEPT ![p] = Call("getOrderById", "read", id, <<>>)]
    /\ UNCHANGED <<products, orders, items, nextProductId, nextOrderId,
                   onDeleteProduct, onDeleteOrder>>
    /\ calls' = calls + 1

\* prisma.order.findUnique({ where: { id }, include: { items } }): the order or null
GetOrderByIdRead(p) ==
    /\ req[p].op = "getOrderById" /\ req[p].pc = "read"
    /\ LET r == req[p]
       IN req' = [req EXCEPT ![p] =
                    IF r.id \notin OrderIds
                    THEN Done([r EXCEPT !.seen = NULL], "ok")
                    ELSE Done([r EXCEPT !.found = r.id,
                                        !.seen = [order |-> [id |-> r.id] @@ orders[r.id],
                                                  items |-> Content(ItemsOf(r.id))]], "ok")]
    /\ UNCHANGED <<products, orders, items, nextProductId, nextOrderId,
                   onDeleteProduct, onDeleteOrder, calls>>

(****************************** health checks ******************************)
\* new Date().toISOString(): the response carries a timestamp
Now == "now"

\* GET /health: answers without touching the database
StartHealth(p) ==
    /\ CanStart(p)
    /\ req' = [req EXCEPT ![p] =
                 Done([Call("GET_health", "respond", NoId, <<>>) EXCEPT
                          !.seen = [status |-> 200, success |-> TRUE, timestamp |-> Now]],
                      "ok")]
    /\ UNCHANGED <<products, orders, items, nextProductId, nextOrderId,
                   onDeleteProduct, onDeleteOrder>>
    /\ calls' = calls + 1

StartHealthDb(p) ==
    /\ CanStart(p)
    /\ req' = [req EXCEPT ![p] = Call("GET_health_db", "probe", NoId, <<>>)]
    /\ UNCHANGED <<products, orders, items, nextProductId, nextOrderId,
                   onDeleteProduct, onDeleteOrder>>
    /\ calls' = calls + 1

\* the 503 answer of the catch block
HealthDbFailed == [status |-> 503, success |-> FALSE, timestamp |-> Now]

\* await prisma.$queryRaw`SELECT 1`: it resolves (up) or throws
HealthDbProbe(p, up) ==
    /\ req[p].op = "GET_health_db" /\ req[p].pc = "probe"
    /\ LET r == [req[p] EXCEPT !.pre = [probe |-> up]]
       IN req' = [req EXCEPT ![p] =
                    IF up THEN [r EXCEPT !.pc = "count"]
                    ELSE Done([r EXCEPT !.seen = HealthDbFailed], "unavailable")]
    /\ UNCHANGED <<products, orders, items, nextProductId, nextOrderId,
                   onDeleteProduct, onDeleteOrder, calls>>

\* Promise.all([product.count(), order.count()]): both resolve, or one throws
HealthDbCount(p, counted) ==
    /\ req[p].op = "GET_health_db" /\ req[p].pc = "count"
    /\ LET r == [req[p] EXCEPT !.pre = [probe |-> TRUE, counts |-> counted]]
       IN req' = [req EXCEPT ![p] =
                    IF counted
                    THEN Done([r EXCEPT !.seen =
                                 [status |-> 200, success |-> TRUE, timestamp |-> Now,
                                  stats |-> [products |-> Cardinality(ProductIds),
                                             orders |-> Cardinality(OrderIds)]]], "ok")
                    ELSE Done([r EXCEPT !.seen = HealthDbFailed], "unavailable")]
    /\ UNCHANGED <<products, orders, items, nextProductId, nextOrderId,
                   onDeleteProduct, onDeleteOrder, calls>>

\* const checks = { server: true, database: false, timestamp }
StartHealthFull(p) ==
    /\ CanStart(p)
    /\ req' = [req EXCEPT ![p] =
                 [Call("GET_health_full", "probe", NoId, <<>>) EXCEPT
                     !.seen = [checks |-> [server |-> TRUE, database |-> FALSE,
                                           timestamp |-> Now]]]]
    /\ UNCHANGED <<products, orders, items, nextProductId, nextOrderId,
                   onDeleteProduct, onDeleteOrder>>
    /\ calls' = calls + 1

\* await prisma.$queryRaw`SELECT 1`; checks.database = true, or false in the catch
HealthFullProbe(p, up) ==
    /\ req[p].op = "GET_health_full" /\ req[p].pc = "probe"
    /\ req' = [req EXCEPT ![p] = [req[p] EXCEPT !.pre = [probe |-> up],
                                                !.seen.checks.database = up,
                                                !.pc = "respond"]]
    /\ UNCHANGED <<products, orders, items, nextProductId, nextOrderId,
                   onDeleteProduct, onDeleteOrder, calls>>

\* the answer sent with the default status whatever allHealthy is
HealthFullRespond_Always200(p) ==
    /\ req[p].op = "GET_health_full" /\ req[p].pc = "respond"
    /\ LET checks == req[p].seen.checks
           allHealthy == checks.server /\ checks.database
       IN req' = [req EXCEPT ![p] =
                    Done([req[p] EXCEPT !.seen = [status |-> 200, success |-> allHealthy,
                                                  checks |-> checks]],
                         IF allHealthy THEN "ok" ELSE "unavailable")]
    /\ UNCHANGED <<products, orders, items, nextProductId, nextOrderId,
                   onDeleteProduct, onDeleteOrder, calls>>

\* allHealthy = checks.server && checks.database: 200, or reply.status(503)
HealthFullRespond(p) ==
    /\ req[p].op = "GET_health_full" /\ req[p].pc = "respond"
    /\ LET checks == req[p].seen.checks
           allHealthy == checks.server /\ checks.database
       IN req' = [req EXCEPT ![p] =
                    IF allHealthy
                    THEN Done([req[p] EXCEPT !.seen = [status |-> 200, success |-> TRUE,
                                                       checks |-> checks]], "ok")
                    ELSE Done([req[p] EXCEPT !.seen = [status |-> 503, success |-> FALSE,
                                                       checks |-> checks]], "unavailable")]
    /\ UNCHANGED <<products, orders, items, nextProductId, nextOrderId,
                   onDeleteProduct, onDeleteOrder, calls>>

(********************************* listings ********************************)
\* querySchema: limit is at most this
MaxLimit == 100

\* querySchema.parse: page at least 1, limit between 1 and MaxLimit
querySchemaOk(query) ==
    /\ query.page >= 1
    /\ query.limit >= 1 /\ query.limit <= MaxLimit

ListOps == {"LIST_products", "LIST_orders", "getProducts"}

\* the ids of a set, newest first: ids are handed out in creation order
NewestFirst(S) ==
    [n \in 1 .. Cardinality(S) |->
        CHOOSE i \in S : Cardinality({j \in S : j >= i}) = n]

\* the records a listing's `where` selects
Matching(op, query) ==
    IF op = "LIST_orders" THEN OrderIds
    ELSE {id \in ProductIds :
            Has(query, "status") => products[id].status = query.status}

\* findMany({ skip, take }) over an ordered result
SkipTake(seq, skip, take) ==
    [k \in 1 .. (IF Len(seq) - skip < take THEN (IF Len(seq) - skip < 0 THEN 0 ELSE Len(seq) - skip)
                 ELSE take) |-> seq[skip + k]]

\* Math.ceil(total / limit), limit at least 1
Ceil(total, limit) == (total + limit - 1) \div limit

\* skip computed as page * limit
SkipOf_FromPage(query) == query.page * query.limit

\* const skip = (query.page - 1) * query.limit
SkipOf(query) == (query.page - 1) * query.limit

\* GET /products: querySchema.parse, 400 when it throws
StartListProducts(p, query) ==
    /\ CanStart(p)
    /\ req' = [req EXCEPT ![p] =
                   IF querySchemaOk(query)
                   THEN Call("LIST_products", "list", NoId, query)
                   ELSE Done(Call("LIST_products", "parse", NoId, query), "validation")]
    /\ UNCHANGED <<products, orders, items, nextProductId, nextOrderId,
                   onDeleteProduct, onDeleteOrder>>
    /\ calls' = calls + 1

\* GET /orders: querySchema.parse, 400 when it throws
StartListOrders(p, query) ==
    /\ CanStart(p)
    /\ req' = [req EXCEPT ![p] =
                   IF querySchemaOk(query)
                   THEN Call("LIST_orders", "list", NoId, query)
                   ELSE Done(Call("LIST_orders", "parse", NoId, query), "validation")]
    /\ UNCHANGED <<products, orders, items, nextProductId, nextOrderId,
                   onDeleteProduct, onDeleteOrder>>
    /\ calls' = calls + 1

\* ProductService.getProducts: page and pageSize are used as they come
StartGetProductsPage(p, query) ==
    /\ CanStart(p)
    /\ req' = [req EXCEPT ![p] = Call("getProducts", "list", NoId, query)]
    /\ UNCHANGED <<products, orders, items, nextProductId, nextOrderId,
                   onDeleteProduct, onDeleteOrder>>
    /\ calls' = calls + 1

\* the findMany of Promise.all([findMany, count])
ListFindMany(p) ==
    /\ req[p].op \in ListOps /\ req[p].pc = "list"
    /\ "findMany" \notin req[p].issued
    /\ LET r == req[p]
           rows == SkipTake(NewestFirst(Matching(r.op, r.body)), SkipOf(r.body), r.body.limit)
       IN req' = [req EXCEPT ![p] = [r EXCEPT !.issued = @ \cup {"findMany"},
                                              !.seen = [data |-> rows] @@ @]]
    /\ UNCHANGED <<products, orders, items, nextProductId, nextOrderId,
                   onDeleteProduct, onDeleteOrder, calls>>

\* the count of Promise.all([findMany, count])
ListCount(p) ==
    /\ req[p].op \in ListOps /\ req[p].pc = "list"
    /\ "count" \notin req[p].issued
    /\ LET r == req[p]
       IN req' = [req EXCEPT ![p] =
                    [r EXCEPT !.issued = @ \cup {"count"},
                              !.seen = [total |-> Cardinality(Matching(r.op, r.body))] @@ @]]
    /\ UNCHANGED <<products, orders, items, nextProductId, nextOrderId,
                   onDeleteProduct, onDeleteOrder, calls>>

\* the answer: data and pagination { page, limit, total, pages }
ListRespond(p) ==
    /\ req[p].op \in ListOps /\ req[p].pc = "list"
    /\ req[p].issued = {"findMany", "count"}
    /\ LET r == req[p]
       IN req' = [req EXCEPT ![p] =
                    Done([r EXCEPT !.seen = [page |-> r.body.page, limit |-> r.body.limit,
                                             pages |-> Ceil(r.seen.total, r.body.limit)] @@ @],
                         "ok")]
    /\ UNCHANGED <<products, orders, items, nextProductId, nextOrderId,
                   onDeleteProduct, onDeleteOrder, calls>>

(************************* deleting a product ******************************)
\* the delete with no foreign key from order items to products
DeleteProductRow_NoForeignKey(p) ==
    LET r == [req[p] EXCEPT !.issued = @ \cup {"delete"}]
    IN IF r.id \notin ProductIds
       THEN /\ req' = [req EXCEPT ![p] = Done(r, "persistence")]
            /\ UNCHANGED <<products, items>>
       ELSE /\ products' = Drop(products, r.id)
            /\ req' = [req EXCEPT ![p] = Done(r, "ok")]
            /\ UNCHANGED items

\* prisma.product.delete({ where: { id } }) under the foreign key of the
\* order items that reference the product
DeleteProductRow(p) ==
    /\ ~ProductKeyShared(p, req[p].id)
    /\ ~ItemRowLocked(p, Ids(ItemsOn(req[p].id)))
    /\ LET r == [req[p] EXCEPT !.issued = @ \cup {"delete"}]
       IN IF r.id \notin ProductIds \/ (ItemsOn(r.id) # {} /\ onDeleteProduct = "Restrict")
          THEN /\ req' = [req EXCEPT ![p] = Done(r, "persistence")]
               /\ UNCHANGED <<products, items>>
          ELSE /\ products' = Drop(products, r.id)
               /\ items' = items \ ItemsOn(r.id)
               /\ req' = [req EXCEPT ![p] = Done(r, "ok")]

(************************* DELETE /products/:id ****************************)
StartDeleteProducts(p, id) ==
    /\ CanStart(p)
    /\ req' = [req EXCEPT ![p] = Call("DELETE_products", "find", id, <<>>)]
    /\ UNCHANGED <<products, orders, items, nextProductId, nextOrderId,
                   onDeleteProduct, onDeleteOrder>>
    /\ calls' = calls + 1

DeleteProductsFind(p) ==
    /\ req[p].op = "DELETE_products" /\ req[p].pc = "find"
    /\ LET r == req[p]
       IN req' = [req EXCEPT ![p] =
                    IF r.id \notin ProductIds
                    THEN Done(r, "notfound")
                    ELSE IF Cardinality(ItemsOn(r.id)) > 0
                    THEN Done([r EXCEPT !.found = r.id], "conflict")
                    ELSE [r EXCEPT !.found = r.id, !.pc = "delete"]]
    /\ UNCHANGED <<products, orders, items, nextProductId, nextOrderId,
                   onDeleteProduct, onDeleteOrder, calls>>

\* the delete done as a status change: the row stays
DeleteProductsDelete_Soft(p) ==
    /\ req[p].op = "DELETE_products" /\ req[p].pc = "delete"
    /\ products' = [products EXCEPT ![req[p].id].status = "DISCONTINUED"]
    /\ req' = [req EXCEPT ![p] = Done([req[p] EXCEPT !.issued = @ \cup {"delete"}], "ok")]
    /\ UNCHANGED <<orders, items, nextProductId, nextOrderId,
                   onDeleteProduct, onDeleteOrder, calls>>


DeleteProductsDelete(p) ==
    /\ req[p].op = "DELETE_products" /\ req[p].pc = "delete"
    /\ DeleteProductRow(p)
    /\ UNCHANGED <<orders, nextProductId, nextOrderId, onDeleteProduct, onDeleteOrder, calls>>

(******************** ProductService.deleteProduct *************************)
StartDeleteProduct(p, id) ==
    /\ CanStart(p)
    /\ req' = [req EXCEPT ![p] = Call("deleteProduct", "find", id, <<>>)]
    /\ UNCHANGED <<products, orders, items, nextProductId, nextOrderId,
                   onDeleteProduct, onDeleteOrder>>
    /\ calls' = calls + 1

DeleteProductFind(p) ==
    /\ req[p].op = "deleteProduct" /\ req[p].pc = "find"
    /\ LET r == req[p]
       IN req' = [req EXCEPT ![p] =
                    IF r.id \notin ProductIds
                    THEN Done(r, "notfound")
                    ELSE [r EXCEPT !.found = r.id, !.pc = "delete"]]
    /\ UNCHANGED <<products, orders, items, nextProductId, nextOrderId,
                   onDeleteProduct, onDeleteOrder, calls>>

DeleteProductDelete(p) ==
    /\ req[p].op = "deleteProduct" /\ req[p].pc = "delete"
    /\ DeleteProductRow(p)
    /\ UNCHANGED <<orders, nextProductId, nextOrderId, onDeleteProduct, onDeleteOrder, calls>>

(************************** POST /products/batch ***************************)
\* the checks made before the first query: the id list, the action, the status
StartBatch(p, body) ==
    /\ CanStart(p)
    /\ LET r == Call("POST_products_batch", "parse", NoId, body)
       IN req' = [req EXCEPT ![p] =
                    IF ~Has(body, "ids") \/ Len(body.ids) = 0
                    THEN Done(r, "validation")
                    ELSE IF body.action = "delete"
                    THEN [r EXCEPT !.pc = "deleteMany"]
                    ELSE IF body.action = "updateStatus"
                    THEN IF Get(body, "status", NULL) \notin Statuses
                         THEN Done(r, "validation")
                         ELSE [r EXCEPT !.pc = "updateMany"]
                    ELSE Done(r, "validation")]
    /\ UNCHANGED <<products, orders, items, nextProductId, nextOrderId,
                   onDeleteProduct, onDeleteOrder>>
    /\ calls' = calls + 1

\* deleteMany({ where: { id: { in: ids } } }): no filter on orderItems
BatchDeleteMany_NoFilter(p) ==
    /\ req[p].op = "POST_products_batch" /\ req[p].pc = "deleteMany"
    /\ LET r == [req[p] EXCEPT !.issued = @ \cup {"delete"}]
           rows == Range(r.body.ids) \cap ProductIds
       IN /\ products' = [id \in ProductIds \ rows |-> products[id]]
          /\ items' = {i \in items : i.productId \notin rows}
          /\ req' = [req EXCEPT ![p] =
                       Done([r EXCEPT !.seen = [deletedCount |-> Cardinality(rows)]], "ok")]
    /\ UNCHANGED <<orders, nextProductId, nextOrderId,
                   onDeleteProduct, onDeleteOrder, calls>>

\* deleteMany({ where: { id: { in: ids }, orderItems: { none: {} } } })
BatchDeleteMany(p) ==
    /\ req[p].op = "POST_products_batch" /\ req[p].pc = "deleteMany"
    /\ LET r == [req[p] EXCEPT !.issued = @ \cup {"delete"}]
           rows == {id \in Range(r.body.ids) \cap ProductIds : ItemsOn(id) = {}}
       IN /\ \A id \in rows : ~ProductKeyShared(p, id)
          /\ products' = [id \in ProductIds \ rows |-> products[id]]
          /\ req' = [req EXCEPT ![p] =
                       Done([r EXCEPT !.seen = [deletedCount |-> Cardinality(rows)]], "ok")]
    /\ UNCHANGED <<orders, items, nextProductId, nextOrderId,
                   onDeleteProduct, onDeleteOrder, calls>>

\* updateMany({ where: { id: { in: ids } }, data: { status } })
BatchUpdateMany(p) ==
    /\ req[p].op = "POST_products_batch" /\ req[p].pc = "updateMany"
    /\ LET r == [req[p] EXCEPT !.issued = @ \cup {"update"}]
           rows == Range(r.body.ids) \cap ProductIds
       IN /\ products' = [id \in ProductIds |->
                            IF id \in rows
                            THEN [products[id] EXCEPT !.status = r.body.status]
                            ELSE products[id]]
          /\ req' = [req EXCEPT ![p] =
                       Done([r EXCEPT !.seen = [updatedCount |-> Cardinality(rows)]], "ok")]
    /\ UNCHANGED <<orders, items, nextProductId, nextOrderId,
                   onDeleteProduct, onDeleteOrder, calls>>

(************************* updating a product ******************************)
\* prisma.product.update({ where: { id }, data }): the fields of data replace
\* the row's, under the unique index on barcode
UpdateProductRow(p, data) ==
    LET r == [req[p] EXCEPT !.issued = @ \cup {"update"}]
    IN IF r.id \in ProductIds /\ BarcodeFree(Get(data, "barcode", products[r.id].barcode), r.id)
       THEN /\ products' = [products EXCEPT ![r.id] =
                              [f \in DOMAIN products[r.id] |->
                                 IF f \in DOMAIN data THEN data[f] ELSE products[r.id][f]]]
            /\ req' = [req EXCEPT ![p] = Done(r, "ok")]
       ELSE /\ req' = [req EXCEPT ![p] = Done(r, "persistence")]
            /\ UNCHANGED products

\* `updateData.barcode && updateData.barcode !== existingProduct.barcode`
BarcodeChanges(body, id) ==
    Has(body, "barcode") /\ body.barcode # "" /\ body.barcode # products[id].barcode

\* a record holding the fields of `fields` that `from` has
Pick(from, fields) == [f \in fields \cap DOMAIN from |-> from[f]]

(*************************** PUT /products/:id *****************************)
\* createProductSchema.partial().parse: unknown keys are stripped, and a field
\* that is present must pass its check
RouteProductKeys ==
    {"name", "barcode", "costPrice", "sellPrice", "vendorIds", "imagePath",
     "status", "tags", "note"}

updateProductSchemaOk(body) ==
    /\ Has(body, "name") => body.name # ""
    /\ Has(body, "barcode") => body.barcode # ""
    /\ Has(body, "costPrice") => body.costPrice > 0
    /\ Has(body, "sellPrice") => body.sellPrice > 0
    /\ Has(body, "status") => body.status \in Statuses

StartPutProducts(p, id, body) ==
    /\ CanStart(p)
    /\ req' = [req EXCEPT ![p] =
                 IF updateProductSchemaOk(body)
                 THEN Call("PUT_products", "find", id, body)
                 ELSE Done(Call("PUT_products", "parse", id, body), "validation")]
    /\ UNCHANGED <<products, orders, items, nextProductId, nextOrderId,
                   onDeleteProduct, onDeleteOrder>>
    /\ calls' = calls + 1

PutProductsFind(p) ==
    /\ req[p].op = "PUT_products" /\ req[p].pc = "find"
    /\ LET r == req[p]
       IN req' = [req EXCEPT ![p] =
                    IF r.id \notin ProductIds
                    THEN Done(r, "notfound")
                    ELSE [r EXCEPT !.found = r.id,
                                   !.pc = IF BarcodeChanges(r.body, r.id)
                                          THEN "duplicate" ELSE "update"]]
    /\ UNCHANGED <<products, orders, items, nextProductId, nextOrderId,
                   onDeleteProduct, onDeleteOrder, calls>>

\* the duplicate lookup with its result ignored
PutProductsDuplicate_Ignored(p) ==
    /\ req[p].op = "PUT_products" /\ req[p].pc = "duplicate"
    /\ req' = [req EXCEPT ![p] = [req[p] EXCEPT !.pc = "update"]]
    /\ UNCHANGED <<products, orders, items, nextProductId, nextOrderId,
                   onDeleteProduct, onDeleteOrder, calls>>


PutProductsDuplicate(p) ==
    /\ req[p].op = "PUT_products" /\ req[p].pc = "duplicate"
    /\ req' = [req EXCEPT ![p] =
                 IF findByBarcode(req[p].body.barcode) # NoId
                 THEN Done(req[p], "conflict")
                 ELSE [req[p] EXCEPT !.pc = "update"]]
    /\ UNCHANGED <<products, orders, items, nextProductId, nextOrderId,
                   onDeleteProduct, onDeleteOrder, calls>>

\* the payload with tags copied whether or not the body has them
RouteUpdatePayload_TagsAlways(body) ==
    LET plain == Pick(body, {"name", "barcode", "costPrice", "sellPrice", "status"})
        tags == [tags |-> Get(body, "tags", <<>>)]
        vendors == IF Has(body, "vendorIds") THEN [vendors |-> body.vendorIds] ELSE <<>>
        imagePath == IF Has(body, "imagePath")
                     THEN [imagePath |-> OrNull(body, "imagePath")] ELSE <<>>
        note == IF Has(body, "note") THEN [note |-> OrNull(body, "note")] ELSE <<>>
    IN plain @@ tags @@ vendors @@ imagePath @@ note

\* updatePayload, built field by field from the parsed body
RouteUpdatePayload(body) ==
    LET plain == Pick(body, {"name", "barcode", "costPrice", "sellPrice", "status", "tags"})
        vendors == IF Has(body, "vendorIds") THEN [vendors |-> body.vendorIds] ELSE <<>>
        imagePath == IF Has(body, "imagePath")
                     THEN [imagePath |-> OrNull(body, "imagePath")] ELSE <<>>
        note == IF Has(body, "note") THEN [note |-> OrNull(body, "note")] ELSE <<>>
    IN plain @@ vendors @@ imagePath @@ note

PutProductsUpdate(p) ==
    /\ req[p].op = "PUT_products" /\ req[p].pc = "update"
    /\ UpdateProductRow(p, RouteUpdatePayload(req[p].body))
    /\ UNCHANGED <<orders, items, nextProductId, nextOrderId,
                   onDeleteProduct, onDeleteOrder, calls>>

(******************** ProductService.updateProduct *************************)
ServiceProductKeys ==
    {"name", "barcode", "costPrice", "sellPrice", "vendors", "imagePath",
     "status", "isOrdered", "tags", "note"}

StartUpdateProduct(p, id, body) ==
    /\ CanStart(p)
    /\ req' = [req EXCEPT ![p] = Call("updateProduct", "find", id, body)]
    /\ UNCHANGED <<products, orders, items, nextProductId, nextOrderId,
                   onDeleteProduct, onDeleteOrder>>
    /\ calls' = calls + 1

\* the vendor check that follows the barcode check
VendorsRejected(body) ==
    Has(body, "vendors") /\ Len(body.vendors) > 0 /\ ~validateVendorIds(body.vendors)

UpdateProductFind(p) ==
    /\ req[p].op = "updateProduct" /\ req[p].pc = "find"
    /\ LET r == req[p]
       IN req' = [req EXCEPT ![p] =
                    IF r.id \notin ProductIds
                    THEN Done(r, "notfound")
                    ELSE IF BarcodeChanges(r.body, r.id)
                    THEN [r EXCEPT !.found = r.id, !.pc = "duplicate"]
                    ELSE IF VendorsRejected(r.body)
                    THEN Done([r EXCEPT !.found = r.id], "validation")
                    ELSE [r EXCEPT !.found = r.id, !.pc = "update"]]
    /\ UNCHANGED <<products, orders, items, nextProductId, nextOrderId,
                   onDeleteProduct, onDeleteOrder, calls>>

UpdateProductDuplicate(p) ==
    /\ req[p].op = "updateProduct" /\ req[p].pc = "duplicate"
    /\ req' = [req EXCEPT ![p] =
                 IF findByBarcode(req[p].body.barcode) # NoId
                 THEN Done(req[p], "conflict")
                 ELSE IF VendorsRejected(req[p].body)
                 THEN Done(req[p], "validation")
                 ELSE [req[p] EXCEPT !.pc = "update"]]
    /\ UNCHANGED <<products, orders, items, nextProductId, nextOrderId,
                   onDeleteProduct, onDeleteOrder, calls>>

\* updateData, built field by field from the request
ServiceUpdateData(body) == Pick(body, ServiceProductKeys)

UpdateProductUpdate(p) ==
    /\ req[p].op = "updateProduct" /\ req[p].pc = "update"
    /\ UpdateProductRow(p, ServiceUpdateData(req[p].body))
    /\ UNCHANGED <<orders, items, nextProductId, nextOrderId,
                   onDeleteProduct, onDeleteOrder, calls>>

(******************** ProductService.updateProductStatus *************************)
StartUpdateProductStatus(p, id, value) ==
    /\ CanStart(p)
    /\ req' = [req EXCEPT ![p] = Call("updateProductStatus", "find", id, [status |-> value])]
    /\ UNCHANGED <<products, orders, items, nextProductId, nextOrderId,
                   onDeleteProduct, onDeleteOrder>>
    /\ calls' = calls + 1

\* the find that goes on to the update whether or not the product is there
UpdateProductStatusFind_NoCheck(p) ==
    /\ req[p].op = "updateProductStatus" /\ req[p].pc = "find"
    /\ req' = [req EXCEPT ![p] = [req[p] EXCEPT !.found = req[p].id, !.pc = "update"]]
    /\ UNCHANGED <<products, orders, items, nextProductId, nextOrderId,
                   onDeleteProduct, onDeleteOrder, calls>>

UpdateProductStatusFind(p) ==
    /\ req[p].op = "updateProductStatus" /\ req[p].pc = "find"
    /\ LET r == req[p]
       IN req' = [req EXCEPT ![p] =
                    IF r.id \notin ProductIds
                    THEN Done(r, "notfound")
                    ELSE [r EXCEPT !.found = r.id, !.pc = "update"]]
    /\ UNCHANGED <<products, orders, items, nextProductId, nextOrderId,
                   onDeleteProduct, onDeleteOrder, calls>>

\* prisma.product.update({ where: { id }, data: { status } })
UpdateProductStatusUpdate(p) ==
    /\ req[p].op = "updateProductStatus" /\ req[p].pc = "update"
    /\ UpdateProductRow(p, [status |-> req[p].body.status])
    /\ UNCHANGED <<orders, items, nextProductId, nextOrderId,
                   onDeleteProduct, onDeleteOrder, calls>>

(******************** ProductService.updateProductOrderStatus *************************)
StartUpdateProductOrderStatus(p, id, value) ==
    /\ CanStart(p)
    /\ req' = [req EXCEPT ![p] = Call("updateProductOrderStatus", "find", id, [isOrdered |-> value])]
    /\ UNCHANGED <<products, orders, items, nextProductId, nextOrderId,
                   onDeleteProduct, onDeleteOrder>>
    /\ calls' = calls + 1

UpdateProductOrderStatusFind(p) ==
    /\ req[p].op = "updateProductOrderStatus" /\ req[p].pc = "find"
    /\ LET r == req[p]
       IN req' = [req EXCEPT ![p] =
                    IF r.id \notin ProductIds
                    THEN Done(r, "notfound")
                    ELSE [r EXCEPT !.found = r.id, !.pc = "update"]]
    /\ UNCHANGED <<products, orders, items, nextProductId, nextOrderId,
                   onDeleteProduct, onDeleteOrder, calls>>

\* the update with `data: { isOrdered, status: 'ACTIVE' }`
UpdateProductOrderStatusUpdate_ResetsStatus(p) ==
    /\ req[p].op = "updateProductOrderStatus" /\ req[p].pc = "update"
    /\ UpdateProductRow(p, [isOrdered |-> req[p].body.isOrdered, status |-> "ACTIVE"])
    /\ UNCHANGED <<orders, items, nextProductId, nextOrderId,
                   onDeleteProduct, onDeleteOrder, calls>>

\* prisma.product.update({ where: { id }, data: { isOrdered } })
UpdateProductOrderStatusUpdate(p) ==
    /\ req[p].op = "updateProductOrderStatus" /\ req[p].pc = "update"
    /\ UpdateProductRow(p, [isOrdered |-> req[p].body.isOrdered])
    /\ UNCHANGED <<orders, items, nextProductId, nextOrderId,
                   onDeleteProduct, onDeleteOrder, calls>>

(********************** product update request bodies **********************)
\* a value for every field a request may carry
FullProductPatch ==
    [name |-> "Z", barcode |-> "B9", costPrice |-> 5, sellPrice |-> 6,
     vendorIds |-> <<"03">>, vendors |-> <<"03">>, imagePath |-> "z.jpg",
     status |-> "DISCONTINUED", isOrdered |-> FALSE, tags |-> <<"t">>,
     note |-> "memo"]

RoutePatchKeys == RouteProductKeys \cup {"isOrdered"}

\* no field, one field, or every field; an empty note or image path; a
\* barcode another product holds
PatchesOver(keys) ==
    {Pick(FullProductPatch, {k}) : k \in keys}
        \cup {<<>>, Pick(FullProductPatch, keys)}
        \cup {[note |-> ""], [imagePath |-> ""], [barcode |-> "B2"]}

(**************************** gateway failure ******************************)
\* the store call a handler is waiting on fails (connection loss, abort): the
\* handler's open transaction, if any, is rolled back and the error surfaces
GatewayFault(p) ==
    /\ req[p].pc \notin {"idle", "done"}
    /\ req' = [req EXCEPT ![p] = Rollback(req[p])]
    /\ UNCHANGED <<products, orders, items, nextProductId, nextOrderId,
                   onDeleteProduct, onDeleteOrder, calls>>

(***************************** initial states ******************************)
ReferentialActions == {"Restrict", "Cascade"}

InitEmpty ==
    /\ products = <<>>
    /\ orders = <<>>
    /\ items = {}
    /\ nextProductId = 1
    /\ nextOrderId = 1
    /\ req = [p \in Procs |-> Idle]
    /\ onDeleteProduct \in ReferentialActions
    /\ onDeleteOrder \in ReferentialActions
    /\ calls = 0

(************* products: concurrent creation of products *******************)
NextProducts ==
    \E p \in Procs :
        \/ \E body \in CreateProductBodies : StartCreateProduct(p, body)
        \/ CreateProductLookup(p)
        \/ CreateProductInsert(p)
        \/ \E body \in CreateProductBodies : StartPostProducts(p, body)
        \/ PostProductsLookup(p)
        \/ PostProductsInsert(p)

SpecProducts == InitEmpty /\ [][NextProducts]_vars

InitSeeded ==
    /\ products = (1 :> [name |-> "A", barcode |-> "B1", costPrice |-> 1, sellPrice |-> 2,
                         vendors |-> <<"01">>, imagePath |-> "a.jpg",
                         status |-> "OUT_OF_STOCK", isOrdered |-> TRUE,
                         tags |-> <<"s">>, note |-> "n"]) @@
                  (2 :> [name |-> "B", barcode |-> "B2", costPrice |-> 1, sellPrice |-> 2,
                         vendors |-> <<"02">>, imagePath |-> NULL, status |-> "ACTIVE",
                         isOrdered |-> FALSE, tags |-> <<>>, note |-> NULL])
    /\ orders = (1 :> [note |-> "N"])
    /\ items = {[id |-> 1, orderId |-> 1, productId |-> 1, quantity |-> 2]}
    /\ nextProductId = 3
    /\ nextOrderId = 2
    /\ req = [p \in Procs |-> Idle]
    /\ onDeleteProduct \in ReferentialActions
    /\ onDeleteOrder \in ReferentialActions
    /\ calls = 0

(******** orders: creating and replacing orders, deleting products *********)
NextOrders ==
    \E p \in Procs :
        \/ \E body \in CreateOrderBodies : StartPostOrders(p, body)
        \/ PostOrdersFindMany(p) \/ PostOrdersCreate(p) \/ PostOrdersFlag(p)
        \/ \E body \in CreateOrderBodies : StartCreateOrder(p, body)
        \/ CreateOrderFindMany(p) \/ CreateOrderCreate(p)
        \/ \E body \in UpdateOrderBodies : StartPutOrders(p, 1, body)
        \/ PutOrdersFind(p) \/ PutOrdersDeleteMany(p)
        \/ PutOrdersCreateMany(p) \/ PutOrdersUpdate(p) \/ PutOrdersCommit(p)
        \/ \E body \in UpdateOrderBodies : StartUpdateOrder(p, 1, body)
        \/ UpdateOrderFind(p) \/ UpdateOrderFindMany(p)
        \/ UpdateOrderDeleteMany(p) \/ UpdateOrderTxUpdate(p) \/ UpdateOrderCommit(p)
        \/ \E id \in ProductTargets : StartDeleteProducts(p, id)
        \/ DeleteProductsFind(p) \/ DeleteProductsDelete(p)
        \/ \E id \in ProductTargets : StartDeleteProduct(p, id)
        \/ DeleteProductFind(p) \/ DeleteProductDelete(p)
        \/ DeleteManyResume(p)

SpecOrders == InitSeeded /\ [][NextOrders]_vars

(************ atomic: one writer of orders, one reader, failures ***********)
\* the task that writes orders and the task that reads them
Writer == CHOOSE p \in Procs : \A q \in Procs : p <= q
Reader == CHOOSE p \in Procs : p # Writer

AtomicUpdateBodies ==
    {[items |-> <<Line(2, 1)>>], [items |-> <<Line(2, 1)>>, note |-> "M"],
     [items |-> <<Line(3, 1)>>], [note |-> "M"]}

NextAtomic ==
    \/ \E body \in CreateOrderBodies : StartPostOrders(Writer, body)
    \/ PostOrdersFindMany(Writer) \/ PostOrdersCreate(Writer) \/ PostOrdersFlag(Writer)
    \/ \E body \in CreateOrderBodies : StartCreateOrder(Writer, body)
    \/ CreateOrderFindMany(Writer) \/ CreateOrderCreate(Writer)
    \/ \E body \in AtomicUpdateBodies : StartPutOrders(Writer, 1, body)
    \/ PutOrdersFind(Writer) \/ PutOrdersDeleteMany(Writer)
    \/ PutOrdersCreateMany(Writer) \/ PutOrdersUpdate(Writer) \/ PutOrdersCommit(Writer)
    \/ \E body \in AtomicUpdateBodies : StartUpdateOrder(Writer, 1, body)
    \/ UpdateOrderFind(Writer) \/ UpdateOrderFindMany(Writer)
    \/ UpdateOrderDeleteMany(Writer) \/ UpdateOrderTxUpdate(Writer)
    \/ UpdateOrderCommit(Writer) \/ UpdateOrderUpdate(Writer)
    \/ GatewayFault(Writer)
    \/ StartGetOrders(Reader, 1) \/ GetOrdersRead(Reader)

SpecAtomic == InitSeeded /\ [][NextAtomic]_vars

(**************** update: product updates, one after another **************)
NextUpdate ==
    \/ \E id \in {1, 3}, body \in PatchesOver(RoutePatchKeys) : StartPutProducts(Writer, id, body)
    \/ PutProductsFind(Writer) \/ PutProductsDuplicate(Writer) \/ PutProductsUpdate(Writer)
    \/ \E id \in {1, 3}, body \in PatchesOver(ServiceProductKeys) : StartUpdateProduct(Writer, id, body)
    \/ UpdateProductFind(Writer) \/ UpdateProductDuplicate(Writer)
    \/ UpdateProductUpdate(Writer)

SpecUpdate == InitSeeded /\ [][NextUpdate]_vars

(********** delete: one task deleting orders, one reader, failures *********)
NextDelete ==
    \/ StartDeleteOrders(Writer, 1)
    \/ DeleteOrdersFind(Writer) \/ DeleteOrdersDeleteMany(Writer)
    \/ DeleteOrdersOrderDelete(Writer) \/ DeleteOrdersCommit(Writer)
    \/ StartDeleteOrder(Writer, 1)
    \/ DeleteOrderFind(Writer) \/ DeleteOrderDelete(Writer)
    \/ GatewayFault(Writer)
    \/ StartGetOrders(Reader, 1) \/ GetOrdersRead(Reader)

SpecDelete == InitSeeded /\ [][NextDelete]_vars

(******** missing: every operation on a record, present or absent *********)
\* ids 3 of a product and 2 of an order are ids no record has
NextMissing ==
    \/ \E id \in {1, 3} : StartPutProducts(Writer, id, [name |-> "Z"])
    \/ PutProductsFind(Writer) \/ PutProductsUpdate(Writer)
    \/ \E id \in {1, 3} : StartUpdateProduct(Writer, id, [name |-> "Z"])
    \/ UpdateProductFind(Writer) \/ UpdateProductUpdate(Writer)
    \/ \E id \in {2, 3} : StartDeleteProducts(Writer, id)
    \/ DeleteProductsFind(Writer) \/ DeleteProductsDelete(Writer)
    \/ \E id \in {2, 3} : StartDeleteProduct(Writer, id)
    \/ DeleteProductFind(Writer) \/ DeleteProductDelete(Writer)
    \/ \E id \in {1, 3} : StartUpdateProductStatus(Writer, id, "DISCONTINUED")
    \/ UpdateProductStatusFind(Writer) \/ UpdateProductStatusUpdate(Writer)
    \/ \E id \in {1, 3} : StartUpdateProductOrderStatus(Writer, id, FALSE)
    \/ UpdateProductOrderStatusFind(Writer) \/ UpdateProductOrderStatusUpdate(Writer)
    \/ \E id \in {1, 2} : StartPutOrders(Writer, id, [note |-> "M"])
    \/ PutOrdersFind(Writer) \/ PutOrdersUpdate(Writer) \/ PutOrdersCommit(Writer)
    \/ \E id \in {1, 2} : StartUpdateOrder(Writer, id, [note |-> "M"])
    \/ UpdateOrderFind(Writer) \/ UpdateOrderUpdate(Writer)
    \/ \E id \in {1, 2} : StartDeleteOrders(Writer, id)
    \/ DeleteOrdersFind(Writer) \/ DeleteOrdersDeleteMany(Writer)
    \/ DeleteOrdersOrderDelete(Writer) \/ DeleteOrdersCommit(Writer)
    \/ \E id \in {1, 2} : StartDeleteOrder(Writer, id)
    \/ DeleteOrderFind(Writer) \/ DeleteOrderDelete(Writer)

SpecMissing == InitSeeded /\ [][NextMissing]_vars

(********* barcodes: products created and given new barcodes ***************)
\* B2 is held by product 2, B9 by no product at the start
NextBarcodes ==
    \/ \E p \in Procs : StartPostProducts(p, ProductBody("B9"))
    \/ \E p \in Procs : PostProductsLookup(p) \/ PostProductsInsert(p)
    \/ \E p \in Procs : StartCreateProduct(p, ProductBody("B9"))
    \/ \E p \in Procs : CreateProductLookup(p) \/ CreateProductInsert(p)
    \/ \E p \in Procs, id \in {1, 2}, b \in {"B2", "B9"} :
          StartPutProducts(p, id, [barcode |-> b])
    \/ \E p \in Procs :
          PutProductsFind(p) \/ PutProductsDuplicate(p) \/ PutProductsUpdate(p)
    \/ \E p \in Procs, id \in {1, 2}, b \in {"B2", "B9"} :
          StartUpdateProduct(p, id, [barcode |-> b])
    \/ \E p \in Procs :
          UpdateProductFind(p) \/ UpdateProductDuplicate(p) \/ UpdateProductUpdate(p)

SpecBarcodes == InitSeeded /\ [][NextBarcodes]_vars

(********* catalog: products created and updated, one after another ********)
\* vendor 03 is in the registry and vendor 99 is not; GONE is no status
CatalogRouteBodies ==
    {ProductBody("B9") @@ [vendorIds |-> v] : v \in {<<"03">>, <<"99">>}}
        \cup {ProductBody("B9") @@ [status |-> st] : st \in {"OUT_OF_STOCK", "GONE"}}

CatalogServiceBodies ==
    {ProductBody("B9") @@ [vendors |-> v] : v \in {<<>>, <<"03">>, <<"99">>}}

NextCatalog ==
    \/ \E body \in CatalogRouteBodies : StartPostProducts(Writer, body)
    \/ PostProductsLookup(Writer) \/ PostProductsInsert(Writer)
    \/ \E body \in CatalogServiceBodies : StartCreateProduct(Writer, body)
    \/ CreateProductLookup(Writer) \/ CreateProductInsert(Writer)
    \/ \E body \in {[vendorIds |-> <<"99">>], [status |-> "GONE"], [status |-> "DISCONTINUED"]} :
          StartPutProducts(Writer, 1, body)
    \/ PutProductsFind(Writer) \/ PutProductsUpdate(Writer)
    \/ \E body \in {[vendors |-> <<"99">>], [vendors |-> <<"03">>]} :
          StartUpdateProduct(Writer, 1, body)
    \/ UpdateProductFind(Writer) \/ UpdateProductUpdate(Writer)
    \/ StartUpdateProductStatus(Writer, 2, "OUT_OF_STOCK")
    \/ UpdateProductStatusFind(Writer) \/ UpdateProductStatusUpdate(Writer)

SpecCatalog == InitSeeded /\ [][NextCatalog]_vars

(****** items: orders created and replaced with unusual item lists *********)
\* a list that names product 2 twice, an empty list, a list of one item
ItemLists == {<<Line(2, 1), Line(2, 2)>>, <<>>, <<Line(2, 1)>>, <<Line(3, 1)>>}

NextItems ==
    \/ \E lines \in ItemLists : StartPostOrders(Writer, [items |-> lines])
    \/ PostOrdersFindMany(Writer) \/ PostOrdersCreate(Writer) \/ PostOrdersFlag(Writer)
    \/ \E lines \in ItemLists : StartCreateOrder(Writer, [items |-> lines])
    \/ CreateOrderFindMany(Writer) \/ CreateOrderCreate(Writer)
    \/ \E lines \in ItemLists : StartPutOrders(Writer, 1, [items |-> lines])
    \/ PutOrdersFind(Writer) \/ PutOrdersDeleteMany(Writer)
    \/ PutOrdersCreateMany(Writer) \/ PutOrdersUpdate(Writer) \/ PutOrdersCommit(Writer)
    \/ \E lines \in ItemLists : StartUpdateOrder(Writer, 1, [items |-> lines])
    \/ UpdateOrderFind(Writer) \/ UpdateOrderFindMany(Writer)
    \/ UpdateOrderDeleteMany(Writer) \/ UpdateOrderTxUpdate(Writer)
    \/ UpdateOrderCommit(Writer)

SpecItems == InitSeeded /\ [][NextItems]_vars

(********* quantities: orders created and replaced with any quantity *******)
QuantityLists == {<<Line(2, q)>> : q \in {-1, 0, 1}}

NextQuantities ==
    \/ \E lines \in QuantityLists : StartPostOrders(Writer, [items |-> lines])
    \/ PostOrdersFindMany(Writer) \/ PostOrdersCreate(Writer) \/ PostOrdersFlag(Writer)
    \/ \E lines \in QuantityLists : StartCreateOrder(Writer, [items |-> lines])
    \/ CreateOrderFindMany(Writer) \/ CreateOrderCreate(Writer)
    \/ \E lines \in QuantityLists : StartPutOrders(Writer, 1, [items |-> lines])
    \/ PutOrdersFind(Writer) \/ PutOrdersDeleteMany(Writer)
    \/ PutOrdersCreateMany(Writer) \/ PutOrdersUpdate(Writer) \/ PutOrdersCommit(Writer)
    \/ \E lines \in QuantityLists : StartUpdateOrder(Writer, 1, [items |-> lines])
    \/ UpdateOrderFind(Writer) \/ UpdateOrderFindMany(Writer)
    \/ UpdateOrderDeleteMany(Writer) \/ UpdateOrderTxUpdate(Writer)
    \/ UpdateOrderCommit(Writer)

SpecQuantities == InitSeeded /\ [][NextQuantities]_vars

(************** reads: both tasks reading, nothing written *****************)
NextReads ==
    \E p \in Procs :
        \/ \E id \in {1, 2, 3} : StartGetProducts(p, id)
        \/ GetProductsRead(p)
        \/ \E id \in {1, 2, 3} : StartGetProductById(p, id)
        \/ GetProductByIdRead(p)
        \/ \E id \in {1, 2} : StartGetOrders(p, id)
        \/ GetOrdersRead(p)
        \/ \E id \in {1, 2} : StartGetOrderById(p, id)
        \/ GetOrderByIdRead(p)

SpecReads == InitSeeded /\ [][NextReads]_vars

(********** health: the three checks, the database up or down **************)
NextHealth ==
    \E p \in Procs :
        \/ StartHealth(p)
        \/ StartHealthDb(p)
        \/ \E up \in BOOLEAN : HealthDbProbe(p, up)
        \/ \E counted \in BOOLEAN : HealthDbCount(p, counted)
        \/ StartHealthFull(p)
        \/ \E up \in BOOLEAN : HealthFullProbe(p, up)
        \/ HealthFullRespond(p)

SpecHealth == InitSeeded /\ [][NextHealth]_vars

(***** listings: one task listing pages while the other creates orders *****)
Pages == 0 .. 3
Limits == {0, 1, 2, MaxLimit + 1}

ProductQueries ==
    {[page |-> pg, limit |-> n] : pg \in Pages, n \in Limits}
      \cup {[page |-> pg, limit |-> n, status |-> "ACTIVE"] : pg \in Pages, n \in Limits}

OrderQueries == {[page |-> pg, limit |-> n] : pg \in Pages, n \in Limits}

\* what the service's callers pass: page at least 1, any positive page size
ServiceQueries == {[page |-> pg, limit |-> n] : pg \in Pages \ {0}, n \in Limits \ {0}}

NextListings ==
    \/ \E query \in ProductQueries : StartListProducts(Writer, query)
    \/ \E query \in OrderQueries : StartListOrders(Writer, query)
    \/ \E query \in ServiceQueries : StartGetProductsPage(Writer, query)
    \/ ListFindMany(Writer) \/ ListCount(Writer) \/ ListRespond(Writer)
    \/ StartPostOrders(Reader, [items |-> <<Line(2, 1)>>])
    \/ PostOrdersFindMany(Reader) \/ PostOrdersCreate(Reader) \/ PostOrdersFlag(Reader)

SpecListings == InitSeeded /\ [][NextListings]_vars

(****** create and read: products created, read back, status changed *******)
NamedBodies ==
    {[name |-> n, barcode |-> b, costPrice |-> 1, sellPrice |-> 2] :
        n \in {"C", "D"}, b \in {"B3", "B4"}}

NextCreateRead ==
    \/ \E body \in NamedBodies : StartPostProducts(Writer, body)
    \/ PostProductsLookup(Writer) \/ PostProductsInsert(Writer)
    \/ \E body \in NamedBodies : StartCreateProduct(Writer, body)
    \/ CreateProductLookup(Writer) \/ CreateProductInsert(Writer)
    \/ \E id \in {3, 4} : StartGetProducts(Reader, id)
    \/ GetProductsRead(Reader)
    \/ \E id \in {3, 4} : StartGetProductById(Reader, id)
    \/ GetProductByIdRead(Reader)
    \/ StartUpdateProductStatus(Reader, 3, "DISCONTINUED")
    \/ UpdateProductStatusFind(Reader) \/ UpdateProductStatusUpdate(Reader)

SpecCreateRead == InitSeeded /\ [][NextCreateRead]_vars

(****** reuse: a product deleted, read again, its barcode created anew ******)
NextReuse ==
    \/ \E id \in {1, 2} : StartDeleteProducts(Writer, id)
    \/ DeleteProductsFind(Writer) \/ DeleteProductsDelete(Writer)
    \/ \E id \in {1, 2} : StartDeleteProduct(Writer, id)
    \/ DeleteProductFind(Writer) \/ DeleteProductDelete(Writer)
    \/ StartPostProducts(Writer, ProductBody("B2"))
    \/ PostProductsLookup(Writer) \/ PostProductsInsert(Writer)
    \/ StartCreateProduct(Writer, ProductBody("B2"))
    \/ CreateProductLookup(Writer) \/ CreateProductInsert(Writer)
    \/ StartGetProducts(Reader, 2) \/ GetProductsRead(Reader)
    \/ StartGetProductById(Reader, 2) \/ GetProductByIdRead(Reader)

SpecReuse == InitSeeded /\ [][NextReuse]_vars

(***** ownership: an order updated by one task and deleted by the other ****)
OwnershipBodies == {[items |-> <<Line(2, 1)>>], [note |-> "M"]}

NextOwnership ==
    \/ \E body \in OwnershipBodies : StartPutOrders(Writer, 1, body)
    \/ PutOrdersFind(Writer) \/ PutOrdersDeleteMany(Writer)
    \/ PutOrdersCreateMany(Writer) \/ PutOrdersUpdate(Writer) \/ PutOrdersCommit(Writer)
    \/ \E body \in OwnershipBodies : StartUpdateOrder(Writer, 1, body)
    \/ UpdateOrderFind(Writer) \/ UpdateOrderFindMany(Writer)
    \/ UpdateOrderDeleteMany(Writer) \/ UpdateOrderTxUpdate(Writer)
    \/ UpdateOrderCommit(Writer) \/ UpdateOrderUpdate(Writer)
    \/ StartDeleteOrders(Reader, 1)
    \/ DeleteOrdersFind(Reader) \/ DeleteOrdersDeleteMany(Reader)
    \/ DeleteOrdersOrderDelete(Reader) \/ DeleteOrdersCommit(Reader)
    \/ StartDeleteOrder(Reader, 1)
    \/ DeleteOrderFind(Reader) \/ DeleteOrderDelete(Reader)
    \/ \E p \in Procs : DeleteManyResume(p)

SpecOwnership == InitSeeded /\ [][NextOwnership]_vars

(******** replace: both tasks replacing the items of the same order ********)
\* the item list each task submits
ReplaceWith(p) == IF p = Writer THEN <<Line(1, 1)>> ELSE <<Line(2, 1)>>

NextReplace ==
    \E p \in Procs :
        \/ StartPutOrders(p, 1, [items |-> ReplaceWith(p)])
        \/ PutOrdersFind(p) \/ PutOrdersDeleteMany(p)
        \/ PutOrdersCreateMany(p) \/ PutOrdersUpdate(p) \/ PutOrdersCommit(p)
        \/ StartUpdateOrder(p, 1, [items |-> ReplaceWith(p)])
        \/ UpdateOrderFind(p) \/ UpdateOrderFindMany(p)
        \/ UpdateOrderDeleteMany(p) \/ UpdateOrderTxUpdate(p)
        \/ UpdateOrderCommit(p)
        \/ DeleteManyResume(p)

SpecReplace == InitSeeded /\ [][NextReplace]_vars

(****** batch: batch actions by one task, orders created by the other ******)
BatchIds == {<<>>, <<1>>, <<2>>, <<1, 2>>, <<2, 3>>, <<1, 2, 3>>}

BatchBodies ==
    {[action |-> a, ids |-> ids] : a \in {"delete", "updateStatus", "archive"}, ids \in BatchIds}
      \cup {[action |-> "updateStatus", ids |-> ids, status |-> st] :
              ids \in BatchIds, st \in {"DISCONTINUED", "SOLD"}}
      \cup {[action |-> "delete"]}

NextBatch ==
    \/ \E body \in BatchBodies : StartBatch(Writer, body)
    \/ BatchDeleteMany(Writer) \/ BatchUpdateMany(Writer)
    \/ StartPostOrders(Reader, [items |-> <<Line(2, 1)>>])
    \/ PostOrdersFindMany(Reader) \/ PostOrdersCreate(Reader) \/ PostOrdersFlag(Reader)

SpecBatch == InitSeeded /\ [][NextBatch]_vars

(***************************************************************************)
(*                               claims                                    *)
(***************************************************************************)

BarcodeUnique ==
    \A i, j \in ProductIds : products[i].barcode = products[j].barcode => i = j

\* the lookup step of a createProduct whose barcode an existing product holds
CreateOnHeldBarcode(p) ==
    /\ req[p].op \in CreateProductOps /\ req[p].pc = "lookup"
    /\ req'[p] # req[p]
    /\ findByBarcode(req[p].body.barcode) # NoId

\* C1: under any sequence of createProduct calls no two products share a
\* barcode, and a createProduct whose barcode an existing product holds ends
\* with a conflict, has issued no insert and leaves every product as it was.
C1_BarcodeUniqueness ==
    /\ []BarcodeUnique
    /\ [][\A p \in Procs :
            CreateOnHeldBarcode(p) =>
                /\ req'[p].pc = "done" /\ req'[p].res = "conflict"
                /\ req'[p].issued = {}
                /\ products' = products]_vars

C1_Witness ==
    \E p \in Procs :
        /\ req[p].op \in CreateProductOps /\ req[p].pc = "done"
        /\ req[p].res = "conflict" /\ req[p].found \in ProductIds
        /\ products[req[p].found].barcode = req[p].body.barcode

\* C2: two createProduct requests with one barcode whose lookups both ran
\* before either insert: exactly one succeeds, the other ends with a
\* conflict, and no two products share the barcode.
C2_ConcurrentCreate ==
    /\ BarcodeUnique
    /\ \A p, q \in Procs :
         ( /\ p # q
           /\ req[p].op \in CreateProductOps /\ req[q].op \in CreateProductOps
           /\ req[p].pc = "done" /\ req[q].pc = "done"
           /\ req[p].body.barcode = req[q].body.barcode
           /\ req[p].found = NoId /\ req[q].found = NoId
           /\ req[p].res # "validation" /\ req[q].res # "validation" )
         => {req[p].res, req[q].res} = {"ok", "conflict"}

UpdateOrderOps == {"updateOrder", "PUT_orders"}
DeleteProductOps == {"deleteProduct", "DELETE_products"}
UpdateProductOps == {"updateProduct", "PUT_products"}

\* request p replaces the items of an order it has found
Replacing(p) ==
    /\ req[p].op \in UpdateOrderOps /\ req[p].found # NoId
    /\ Has(req[p].body, "items")

\* a read of the order that request w is replacing, or has replaced
ReadsReplaced(r, w) ==
    /\ req[r].op = "GET_orders" /\ req[r].pc = "read"
    /\ req'[r].pc = "done" /\ req'[r].res = "ok"
    /\ Replacing(w) /\ req[w].id = req[r].id

\* C3: an updateOrder that replaces item set S by T and succeeds leaves the
\* order with exactly T, and every read of the order made while the
\* replacement runs or after it ended sees exactly S or exactly T: never no
\* items, never a mixture.
C3_ReplaceAtomic ==
    /\ [](\A w \in Procs :
            (Replacing(w) /\ req[w].pc = "done" /\ req[w].res = "ok")
                => Content(ItemsOf(req[w].id)) = req[w].body.items)
    /\ [][\A r, w \in Procs :
            ReadsReplaced(r, w)
                => req'[r].seen \in {req[w].pre.items, req[w].body.items}]_vars

C3_Witness ==
    /\ req[Reader].op = "GET_orders" /\ req[Reader].pc = "done"
    /\ Replacing(Writer) /\ req[Writer].pc = "commit"
    /\ req[Writer].id = req[Reader].id
    /\ req[Writer].pre.items # req[Writer].body.items
    /\ req[Reader].seen = req[Writer].pre.items

CreateWithMissingProduct(p) ==
    /\ req[p].op \in CreateOrderOps /\ req[p].pc = "findMany"
    /\ req'[p] # req[p]
    /\ \E n \in DOMAIN req[p].body.items : req[p].body.items[n].productId \notin ProductIds

\* C5: a createOrder whose items name a product that does not exist ends
\* with a validation error, having written nothing: no order, no order item.
C5_CreateOrderMissingProduct ==
    [][\A p \in Procs :
         CreateWithMissingProduct(p) =>
             /\ req'[p].pc = "done" /\ req'[p].res = "validation"
             /\ req'[p].issued = {} /\ req'[p].made = NoId
             /\ store' = store]_vars

C5_Witness ==
    \E p \in Procs :
        /\ req[p].op \in CreateOrderOps /\ req[p].pc = "done"
        /\ req[p].res = "validation" /\ req[p].issued = {}
        /\ \E n \in DOMAIN req[p].body.items : req[p].body.items[n].productId \notin ProductIds

\* the step that ends a deleteProduct on a product some order item references
EndsDeleteOfReferenced(p) ==
    /\ req[p].op \in DeleteProductOps /\ req[p].pc # "done"
    /\ req'[p].pc = "done"
    /\ req[p].id \in ProductIds /\ ItemsOn(req[p].id) # {}

\* C6: a deleteProduct on a product that an order item references ends with
\* a conflict and leaves the product as it was, in the DELETE route and in
\* ProductService.deleteProduct alike.
C6_DeleteReferencedConflicts ==
    [][\A p \in Procs :
         EndsDeleteOfReferenced(p) =>
             /\ req'[p].res = "conflict"
             /\ products' = products]_vars

\* the items name a product id that was never given out
NamesUnknownProduct(lines) == \E n \in DOMAIN lines : lines[n].productId >= nextProductId

\* C7: an updateOrder whose items name a product that does not exist issues
\* no delete and no insert, and ends with a validation error.
C7_UpdateOrderMissingProduct ==
    \A p \in Procs :
        (Replacing(p) /\ NamesUnknownProduct(req[p].body.items))
            => /\ req[p].issued \cap {"delete", "insert"} = {}
               /\ req[p].pc = "done" => req[p].res = "validation"

\* C8: when a statement of the updateOrder transaction fails, after the old
\* items were deleted or after the new ones were written, the order keeps
\* exactly the items and the note it had before the call.
C8_UpdateOrderRollsBack ==
    \A p \in Procs :
        ( /\ req[p].op \in UpdateOrderOps /\ req[p].found # NoId
          /\ req[p].pc = "done" /\ req[p].res = "persistence" )
        => /\ req[p].tx = NoTx
           /\ Content(ItemsOf(req[p].id)) = req[p].pre.items
           /\ orders[req[p].id].note = req[p].pre.note

C8_Witness ==
    \E p \in Procs :
        /\ Replacing(p) /\ req[p].pc = "done" /\ req[p].res = "persistence"
        /\ {"delete", "insert"} \subseteq req[p].issued
        /\ ProductsExist(req[p].body.items)
        /\ req[p].body.items # req[p].pre.items

\* C9: whenever a createOrder ends with an error, the store holds no order
\* and no order item that the call created.
C9_FailedCreateOrderPersistsNothing ==
    \A p \in Procs :
        (req[p].op \in CreateOrderOps /\ req[p].pc = "done" /\ req[p].res # "ok")
            => /\ req[p].made \notin OrderIds
               /\ ItemsOf(req[p].made) = {}

\* the update step of an updateProduct that succeeds
UpdatesProduct(p) ==
    /\ req[p].op \in UpdateProductOps /\ req[p].pc = "update"
    /\ req'[p].pc = "done" /\ req'[p].res = "ok"

\* the key under which a request carries a field of the product
KeyOf(op, f) == IF op = "PUT_products" /\ f = "vendors" THEN "vendorIds" ELSE f

ProductFields ==
    {"name", "barcode", "costPrice", "sellPrice", "vendors", "imagePath",
     "status", "isOrdered", "tags", "note"}

\* C10 as stated: a field absent from the payload keeps its value and a
\* field the payload supplies takes the supplied value.
C10_SparseUpdate ==
    [][\A p \in Procs :
         UpdatesProduct(p) =>
            \A f \in ProductFields :
                products'[req[p].id][f] =
                    IF Has(req[p].body, KeyOf(req[p].op, f))
                    THEN req[p].body[KeyOf(req[p].op, f)]
                    ELSE products[req[p].id][f]]_vars

\* what a supplied field is stored as
StoredAs(op, f, v) ==
    IF op = "PUT_products" /\ f \in {"imagePath", "note"} /\ v = "" THEN NULL ELSE v

\* C10: a field absent from the payload keeps its value; a field the payload
\* supplies takes the supplied value, except that the PUT /products/:id route
\* stores an empty imagePath or note as null and does not take isOrdered.
C10_SparseUpdateStored ==
    [][\A p \in Procs :
         UpdatesProduct(p) =>
            \A f \in ProductFields :
                products'[req[p].id][f] =
                    IF /\ Has(req[p].body, KeyOf(req[p].op, f))
                       /\ ~(req[p].op = "PUT_products" /\ f = "isOrdered")
                    THEN StoredAs(req[p].op, f, req[p].body[KeyOf(req[p].op, f)])
                    ELSE products[req[p].id][f]]_vars

C10_Witness ==
    \E p \in Procs :
        /\ req[p].op = "PUT_products" /\ req[p].pc = "done" /\ req[p].res = "ok"
        /\ req[p].body = [note |-> ""]
        /\ products[req[p].id].note = NULL
        /\ products[req[p].id].name = "A"

\* a step taken by an updateOrder that is under way
UpdateOrderStep(p) ==
    /\ req[p].op \in UpdateOrderOps /\ req[p].pc \notin {"idle", "done"}
    /\ req'[p] # req[p]

\* C11: an updateOrder called without items changes at most the note of its
\* order: no step of it adds, removes or alters an order item, a product or
\* the set of orders.
C11_NoteOnlyKeepsItems ==
    [][\A p \in Procs :
         (UpdateOrderStep(p) /\ ~Has(req[p].body, "items"))
             => /\ items' = items
                /\ products' = products
                /\ DOMAIN orders' = DOMAIN orders
                /\ \A o \in OrderIds \ {req[p].id} : orders'[o] = orders[o]]_vars

C11_Witness ==
    \E p \in Procs :
        /\ req[p].op \in UpdateOrderOps /\ req[p].pc = "done" /\ req[p].res = "ok"
        /\ req[p].body = [note |-> "M"]
        /\ orders[req[p].id].note = "M"
        /\ Content(ItemsOf(req[p].id)) = req[p].pre.items
        /\ req[p].pre.items # <<>>

\* C12: an updateOrder whose request has no note leaves the stored note of
\* the order as it was, whether or not the request has items.
C12_AbsentNoteKept ==
    [][\A p \in Procs :
         (UpdateOrderStep(p) /\ ~Has(req[p].body, "note"))
             => orders' = orders]_vars

DeleteOrderOps == {"deleteOrder", "DELETE_orders"}

\* request p deletes an order it has found
Deleting(p) == req[p].op \in DeleteOrderOps /\ req[p].found # NoId

\* C13: a deleteOrder that succeeds leaves neither the order nor any item of
\* it; every step keeps an order with all of its items or removes the order
\* and all of its items together, also when the call fails; and a read made
\* while the call runs or after it finds no order or the order with all of
\* its items.
C13_DeleteOrderAtomic ==
    /\ [](\A p \in Procs :
            (Deleting(p) /\ req[p].pc = "done" /\ req[p].res = "ok")
                => req[p].id \notin OrderIds /\ ItemsOf(req[p].id) = {})
    /\ [][\A o \in OrderIds :
            {i \in items' : i.orderId = o} =
                IF o \in DOMAIN orders' THEN ItemsOf(o) ELSE {}]_vars
    /\ [][\A r, w \in Procs :
            ( /\ req[r].op = "GET_orders" /\ req[r].pc = "read" /\ req'[r].pc = "done"
              /\ Deleting(w) /\ req[w].id = req[r].id )
            => \/ req'[r].res = "notfound"
               \/ req'[r].res = "ok" /\ req'[r].seen = req[w].pre.items]_vars

C13_Witness ==
    /\ Deleting(Writer) /\ req[Writer].pc = "done" /\ req[Writer].res = "ok"
    /\ req[Writer].pre.items # <<>>
    /\ req[Writer].id \notin OrderIds
    /\ req[Reader].op = "GET_orders" /\ req[Reader].res = "notfound"

ProductIdOps ==
    UpdateProductOps \cup DeleteProductOps \cup {"updateProductStatus", "updateProductOrderStatus"}

OrderIdOps == UpdateOrderOps \cup DeleteOrderOps

\* the lookup step of an operation whose id no record has
LooksUpMissing(p) ==
    /\ req[p].pc = "find" /\ req'[p] # req[p]
    /\ \/ req[p].op \in ProductIdOps /\ req[p].id \notin ProductIds
       \/ req[p].op \in OrderIdOps /\ req[p].id \notin OrderIds

\* C14: updateProduct, deleteProduct, updateProductStatus,
\* updateProductOrderStatus, updateOrder and deleteOrder, called with an id
\* that no record has, end with a not-found error, issue no write and leave
\* products, orders and order items as they were.
C14_MissingIdNotFound ==
    [][\A p \in Procs :
         LooksUpMissing(p) =>
             /\ req'[p].pc = "done" /\ req'[p].res = "notfound"
             /\ req'[p].issued = {}
             /\ store' = store]_vars

C14_Witness ==
    /\ \E p \in Procs :
         /\ req[p].op = "updateProductStatus" /\ req[p].pc = "done"
         /\ req[p].res = "notfound" /\ req[p].id \notin ProductIds
         /\ req[p].issued = {}
    /\ calls = MaxCalls

\* a product other than id holds the barcode
HeldByOther(barcode, id) ==
    \E other \in ProductIds \ {id} : products[other].barcode = barcode

\* a step of an updateProduct, at pc, that carries a barcode for a product
\* that exists
UpdateBarcodeStep(p, pc) ==
    /\ req[p].op \in UpdateProductOps /\ req[p].pc = pc
    /\ req'[p] # req[p]
    /\ Has(req[p].body, "barcode") /\ req[p].id \in ProductIds

\* C15: no two products ever share a barcode under createProduct and
\* updateProduct calls; an updateProduct whose barcode differs from the
\* product's own has it looked up, and when a different product holds it the
\* call ends with a conflict and no product changes; an updateProduct that
\* carries the product's own barcode goes on to its update.
C15_UpdateBarcodeUnique ==
    /\ []BarcodeUnique
    /\ [][\A p \in Procs :
            /\ (UpdateBarcodeStep(p, "find")
                  /\ req[p].body.barcode # products[req[p].id].barcode)
                => req'[p].pc = "duplicate"
            /\ (UpdateBarcodeStep(p, "find")
                  /\ req[p].body.barcode = products[req[p].id].barcode)
                => req'[p].pc = "update"
            /\ (UpdateBarcodeStep(p, "duplicate")
                  /\ HeldByOther(req[p].body.barcode, req[p].id))
                => /\ req'[p].pc = "done" /\ req'[p].res = "conflict"
                   /\ products' = products]_vars

C15_Witness ==
    \E p, q \in Procs :
        /\ req[p].op \in UpdateProductOps /\ req[p].pc = "done"
        /\ req[p].res = "conflict" /\ req[p].issued = {}
        /\ HeldByOther(req[p].body.barcode, req[p].id)
        /\ req[q].op \in UpdateProductOps /\ req[q].pc = "done" /\ req[q].res = "ok"
        /\ req[q].body.barcode = "B2" /\ req[q].id = 2

\* the vendor list a createProduct or updateProduct request carries
VendorsOf(r) ==
    Get(r.body, IF r.op \in {"POST_products", "PUT_products"} THEN "vendorIds" ELSE "vendors",
        <<>>)

\* the request is a createProduct or updateProduct that carries a vendor id
\* outside the registry
CarriesUnknownVendor(p) ==
    /\ req[p].op \in CreateProductOps \cup UpdateProductOps
    /\ \E v \in Range(VendorsOf(req[p])) : v \notin VENDORS

\* C16: a createProduct or updateProduct whose vendor list holds an id
\* outside the registry writes nothing and does not succeed, so every vendor
\* id stored on a product is in the registry.
C16_UnknownVendorRejected ==
    /\ \A id \in ProductIds : \A v \in Range(products[id].vendors) : v \in VENDORS
    /\ \A p \in Procs :
         CarriesUnknownVendor(p) =>
             /\ req[p].issued = {}
             /\ req[p].pc = "done" => req[p].res \in {"validation", "conflict", "notfound"}

\* the insert step of a createProduct that succeeds
CreatesProduct(p) ==
    /\ req[p].op \in CreateProductOps /\ req[p].pc = "insert"
    /\ req'[p].pc = "done" /\ req'[p].res = "ok"

\* C18: the product a successful createProduct stores has isOrdered = false
\* and the status of the request, or ACTIVE when the request has none; and
\* every stored status is one of ACTIVE, OUT_OF_STOCK, DISCONTINUED.
C18_CreatedStatusAndFlag ==
    /\ [](\A id \in ProductIds : products[id].status \in Statuses)
    /\ [][\A p \in Procs :
            CreatesProduct(p) =>
                /\ req'[p].made \in DOMAIN products' \ ProductIds
                /\ products'[req'[p].made].isOrdered = FALSE
                /\ products'[req'[p].made].status = Get(req[p].body, "status", "ACTIVE")]_vars

C18_Witness ==
    \E p \in Procs :
        /\ req[p].op = "POST_products" /\ req[p].pc = "done" /\ req[p].res = "ok"
        /\ req[p].made \in ProductIds
        /\ Get(req[p].body, "status", "ACTIVE") = "OUT_OF_STOCK"
        /\ products[req[p].made].status = "OUT_OF_STOCK"
        /\ products[req[p].made].isOrdered = FALSE

\* C17: every product that an order item references has isOrdered = true,
\* stated of the states in which no request is under way (the claim is of
\* every reachable state, of which these are some).
C17_ReferencedProductsFlagged ==
    (\A p \in Procs : req[p].pc \in {"idle", "done"})
        => \A i \in items :
              i.productId \in ProductIds => products[i.productId].isOrdered = TRUE

\* C19: a createOrder reports that some products were not found exactly when
\* one of the product ids of its items matches no product; items that repeat
\* the id of a product that exists are not reported as missing.
C19_NotFoundIffMissing ==
    [][\A p \in Procs :
         (req[p].op \in CreateOrderOps /\ req[p].pc = "findMany" /\ req'[p] # req[p])
         => ((req'[p].pc = "done" /\ req'[p].res = "validation")
               <=> \E n \in DOMAIN req[p].body.items :
                       req[p].body.items[n].productId \notin ProductIds)]_vars

\* C20: every order has at least one order item, stated of the states in
\* which no request is under way.
C20_OrdersHaveItems ==
    (\A p \in Procs : req[p].pc \in {"idle", "done"})
        => \A o \in OrderIds : ItemsOf(o) # {}

\* C21: every stored order item has a quantity greater than zero, and a
\* createOrder or updateOrder that carries an item whose quantity is zero or
\* less writes nothing.
C21_QuantitiesPositive ==
    /\ \A i \in items : i.quantity > 0
    /\ \A p \in Procs :
         ( /\ req[p].op \in CreateOrderOps \cup UpdateOrderOps
           /\ Has(req[p].body, "items")
           /\ \E n \in DOMAIN req[p].body.items : req[p].body.items[n].quantity <= 0 )
         => req[p].issued = {}

\* the update step of an updateProductStatus or updateProductOrderStatus
NarrowUpdateStep(p, op) ==
    /\ req[p].op = op /\ req[p].pc = "update" /\ req'[p] # req[p]
    /\ req[p].id \in ProductIds

\* C22: on a product that exists updateProductStatus changes its status and
\* nothing else, and updateProductOrderStatus changes its isOrdered and
\* nothing else; on an id no product has both end with not-found.
C22_NarrowUpdates ==
    [][\A p \in Procs :
         /\ NarrowUpdateStep(p, "updateProductStatus")
              => /\ req'[p].res = "ok"
                 /\ products' = [products EXCEPT ![req[p].id].status = req[p].body.status]
                 /\ orders' = orders /\ items' = items
         /\ NarrowUpdateStep(p, "updateProductOrderStatus")
              => /\ req'[p].res = "ok"
                 /\ products' = [products EXCEPT ![req[p].id].isOrdered = req[p].body.isOrdered]
                 /\ orders' = orders /\ items' = items
         /\ ( /\ req[p].op \in {"updateProductStatus", "updateProductOrderStatus"}
              /\ req[p].pc = "find" /\ req'[p] # req[p]
              /\ req[p].id \notin ProductIds )
              => req'[p].pc = "done" /\ req'[p].res = "notfound" /\ products' = products]_vars

C22_Witness ==
    \E p \in Procs :
        /\ req[p].op = "updateProductOrderStatus" /\ req[p].pc = "done"
        /\ req[p].res = "ok" /\ req[p].id \in ProductIds
        /\ products[req[p].id].isOrdered = FALSE
        /\ products[req[p].id].status = "DISCONTINUED"

ReadOps == {"GET_products", "getProductById", "GET_orders", "getOrderById"}

\* what a finished read told its caller
Answer(r) == <<r.res, r.found, r.seen>>

\* C23: a read of one product or one order leaves every stored record as it
\* was, and two reads of the same id with no write between them give the
\* same answer.
C23_ReadsPureRepeatable ==
    [][/\ \A p \in Procs :
            (req[p].op \in ReadOps /\ req[p].pc = "read" /\ req'[p] # req[p])
                => store' = store
       /\ \A p, q \in Procs :
            ( /\ req'[p].op \in ReadOps /\ req'[p].pc = "done"
              /\ req'[q].op = req'[p].op /\ req'[q].pc = "done"
              /\ req'[q].id = req'[p].id )
                => Answer(req'[p]) = Answer(req'[q])]_vars

C23_Witness ==
    /\ req[1].op = "GET_products" /\ req[1].pc = "done" /\ req[1].res = "ok"
    /\ req[2].op = "GET_products" /\ req[2].pc = "done" /\ req[2].id = req[1].id
    /\ req[2].seen.product.barcode = "B1"
    /\ calls = MaxCalls

\* the answer of a finished full health check says everything is healthy
ReportsHealthy(a) ==
    /\ a.status = 200 /\ a.success = TRUE
    /\ a.checks.server = TRUE /\ a.checks.database = TRUE

\* C24: a finished full health check reports 200, success, server and
\* database true exactly when its probe of the database succeeded, and
\* otherwise 503 with success false and database false; a finished database
\* health check whose probe or counts failed reports 503 with success false;
\* a basic health check reports success with a timestamp.
C24_HealthChecks ==
    \A p \in Procs :
        req[p].pc = "done" =>
            /\ req[p].op = "GET_health_full" =>
                 /\ ReportsHealthy(req[p].seen) <=> req[p].pre.probe
                 /\ ~req[p].pre.probe =>
                       /\ req[p].seen.status = 503 /\ req[p].seen.success = FALSE
                       /\ req[p].seen.checks.database = FALSE
            /\ req[p].op = "GET_health_db" =>
                 /\ (~req[p].pre.probe \/ ~req[p].pre.counts) =>
                       req[p].seen.status = 503 /\ req[p].seen.success = FALSE
            /\ req[p].op = "GET_health" =>
                 /\ req[p].seen.success = TRUE
                 /\ req[p].seen.timestamp = Now

C24_Witness ==
    /\ req[1].op = "GET_health_full" /\ req[1].pc = "done" /\ ~req[1].pre.probe
    /\ req[1].seen.status = 503
    /\ req[2].op = "GET_health_db" /\ req[2].pc = "done"
    /\ req[2].pre.probe /\ ~req[2].pre.counts

\* the records of page pg of size n of the ordered result M
PageOf(M, pg, n) ==
    [k \in 1 .. (IF Len(M) <= (pg - 1) * n THEN 0
                 ELSE IF Len(M) - (pg - 1) * n < n THEN Len(M) - (pg - 1) * n ELSE n)
        |-> M[(pg - 1) * n + k]]

RECURSIVE PagesUpTo(_, _, _)
\* pages 1 .. pg of size n of M, one after the other
PagesUpTo(M, pg, n) ==
    IF pg = 0 THEN <<>> ELSE PagesUpTo(M, pg - 1, n) \o PageOf(M, pg, n)

PageCount(total, n) == CHOOSE c \in 0 .. total : c * n >= total /\ (c = 0 \/ (c - 1) * n < total)

InBounds(query) == query.page >= 1 /\ query.limit \in 1 .. MaxLimit

\* a listing step: the findMany, the count or the answer
ListsAt(p, what) ==
    /\ req[p].op \in ListOps /\ req[p].pc = "list" /\ req'[p] # req[p]
    /\ what \in req'[p].issued \ req[p].issued

ProductReadOps == {"GET_products", "getProductById"}

\* the product a finished read of one product handed back
ProductSeen(r) == IF r.op = "GET_products" THEN r.seen.product ELSE r.seen

\* C26: while the create that made a product is still the last call of its
\* task and nothing has renamed or deleted the product, a finished read by
\* the id the create returned hands back a product with that id and the
\* name and barcode the create was given.
C26_CreateThenRead ==
    \A p, q \in Procs :
        ( /\ req[p].op \in CreateProductOps /\ req[p].pc = "done" /\ req[p].res = "ok"
          /\ req[q].op \in ProductReadOps /\ req[q].pc = "done"
          /\ req[q].id = req[p].made )
            => \/ req[q].found = NoId
               \/ /\ ProductSeen(req[q]).id = req[p].made
                  /\ ProductSeen(req[q]).name = req[p].body.name
                  /\ ProductSeen(req[q]).barcode = req[p].body.barcode

C26_Witness ==
    \E p, q \in Procs :
        /\ req[p].op = "POST_products" /\ req[p].pc = "done" /\ req[p].res = "ok"
        /\ req[q].op = "GET_products" /\ req[q].pc = "done" /\ req[q].res = "ok"
        /\ req[q].id = req[p].made
        /\ req[q].seen.product.name = "D" /\ req[q].seen.product.barcode = "B4"

\* C27: a delete of a product that exists and that no order item references
\* ends with success and the product gone, no product holding its barcode;
\* a read by the id of a product that is gone reports not-found; a create
\* whose barcode no product holds succeeds and stores that barcode.
C27_DeleteFreesBarcode ==
    [][\A p \in Procs :
         LET r == req[p]
         IN /\ ( /\ r.op \in DeleteProductOps /\ r.pc \in {"find", "delete"}
                 /\ req'[p] # r
                 /\ r.id \in ProductIds /\ ItemsOn(r.id) = {} )
                  => \/ r.pc = "find" /\ req'[p].pc = "delete" /\ products' = products
                     \/ /\ r.pc = "delete"
                        /\ req'[p].pc = "done" /\ req'[p].res = "ok"
                        /\ r.id \notin DOMAIN products'
                        /\ \A id \in DOMAIN products' :
                              products'[id].barcode # products[r.id].barcode
            /\ ( /\ r.op \in ProductReadOps /\ r.pc = "read" /\ req'[p] # r
                 /\ r.id \notin ProductIds )
                  => /\ req'[p].found = NoId
                     /\ req'[p].res = "notfound" \/ req'[p].seen = NULL
            /\ ( /\ r.op \in CreateProductOps /\ r.pc \in {"lookup", "insert"}
                 /\ req'[p] # r
                 /\ BarcodeFree(r.body.barcode, NoId) )
                  => \/ r.pc = "lookup" /\ req'[p].pc = "insert"
                     \/ /\ r.pc = "insert"
                        /\ req'[p].pc = "done" /\ req'[p].res = "ok"
                        /\ req'[p].made \in DOMAIN products'
                        /\ products'[req'[p].made].barcode = r.body.barcode]_vars

C27_Witness ==
    /\ 2 \notin ProductIds
    /\ \E p \in Procs :
          /\ req[p].op \in CreateProductOps /\ req[p].pc = "done" /\ req[p].res = "ok"
          /\ req[p].made \in ProductIds
          /\ products[req[p].made].barcode = "B2"

C29_ReplaceOneWins ==
    ( /\ \A p \in Procs : /\ req[p].op \in UpdateOrderOps /\ req[p].pc = "done"
                          /\ req[p].res = "ok" /\ req[p].id = 1
      /\ calls = 2 )
        => \E p \in Procs : Content(ItemsOf(1)) = req[p].body.items

\* a batch body the handler must turn down
BatchRejected(body) ==
    \/ ~Has(body, "ids") \/ Len(body.ids) = 0
    \/ body.action \notin {"delete", "updateStatus"}
    \/ body.action = "updateStatus" /\ Get(body, "status", NULL) \notin Statuses

\* C30: the batch delete removes, of the ids given, exactly the products
\* that exist and have no order item, leaves the other products and all
\* items as they were, and returns the number removed as deletedCount; a
\* batch with an empty id list, an unknown action, or an updateStatus whose
\* status is not a product status ends with 400 and no product changed.
C30_Batch ==
    [][\A p \in Procs :
         /\ ( /\ req[p].op = "POST_products_batch" /\ req[p].pc = "deleteMany"
              /\ req'[p] # req[p] )
              => LET gone == {id \in ProductIds :
                                /\ \E n \in DOMAIN req[p].body.ids : req[p].body.ids[n] = id
                                /\ ItemsOn(id) = {}}
                 IN /\ DOMAIN products' = ProductIds \ gone
                    /\ \A id \in ProductIds \ gone : products'[id] = products[id]
                    /\ items' = items /\ orders' = orders
                    /\ req'[p].res = "ok"
                    /\ req'[p].seen.deletedCount = Cardinality(gone)
         /\ ( /\ req'[p].op = "POST_products_batch" /\ req'[p] # req[p]
              /\ BatchRejected(req'[p].body) )
              => /\ req'[p].pc = "done" /\ req'[p].res = "validation"
                 /\ req'[p].issued = {}
                 /\ products' = products]_vars

C30_Witness ==
    \E p \in Procs :
        /\ req[p].op = "POST_products_batch" /\ req[p].pc = "done" /\ req[p].res = "ok"
        /\ req[p].body.action = "delete" /\ req[p].body.ids = <<1, 2, 3>>
        /\ req[p].seen.deletedCount = 1
        /\ ProductIds = {1}

====
